---- MODULE Spec2Model ----
(***************************************************************************)
(* Verification model of the real-estate query assistant.                  *)
(*                                                                         *)
(* Three groups of state are modelled, under six specifications:          *)
(*   SpecCache    - the process-wide data cache of agents/tools and        *)
(*                  data_agent (enable_cache, load_city_data, clear_cache, *)
(*                  get_cache_status)                                      *)
(*   SpecRace     - one load_city_data call, statement by statement, while *)
(*                  other callers enable, disable and clear the cache      *)
(*   SpecAnalysis - the table operations of AI_agent/data_analysis.py and  *)
(*                  agents/tools/data_analysis.py                          *)
(*   SpecCalls    - AI_agent: one call of parse_query_to_json,             *)
(*                  extract_query_params, identify_query_type, a handler,  *)
(*                  process_query or query_sales_data on drawn arguments;  *)
(*                  agents: one call of router                             *)
(*   SpecUrl      - agents: one call of build_url on drawn parameters      *)
(*   SpecPipeline - AI_agent: the turns chat_pipeline adds to the          *)
(*                  conversation memory                                    *)
(*                                                                         *)
(* Chinese text is written character by character with pinyin names, one  *)
(* string per character: <<"tai","bei","shi">> is the city name Taipei     *)
(* (U+53F0 U+5317 U+5E02), "tai2" is the variant character U+81FA.         *)
(***************************************************************************)
EXTENDS Integers, Sequences, FiniteSets, TLC

VARIABLES
    \* ---- data cache (agents/tools/data_loader.py) ----
    cacheEnabled,   \* _CACHE_ENABLED
    dataCache,      \* _DATA_CACHE[key] for the three table keys
    lastLoaded,     \* _DATA_CACHE["last_loaded"][key]
    now,            \* the wall clock read by time.time()
    op,             \* the last call made on the cache and what it returned
    pre,            \* the cache as it was when that call started
    loader,         \* a load_city_data call running beside the other calls
    \* ---- table operations (data_analysis.py) ----
    table,          \* the DataFrame object the caller holds (a loaded table)
    loadedTable,    \* that table as it was when it was loaded
    anaOp,          \* the last table operation called and what it returned
    \* ---- query pipeline (AI_agent) ----
    memory,         \* CONVERSATION_MEMORY.chat_memory.messages
    pipeOp          \* the last pipeline function called and what it returned

cacheVars == <<cacheEnabled, dataCache, lastLoaded, now, op, pre, loader>>
anaVars == <<table, loadedTable, anaOp>>
pipeVars == <<memory, pipeOp>>

vars == <<cacheEnabled, dataCache, lastLoaded, now, op, pre, loader,
          table, loadedTable, anaOp, memory, pipeOp>>

(***************************************************************************)
(* Python values                                                           *)
(***************************************************************************)
\* Python's None where a string is expected (no text is this one token).
None == <<"None">>

\* `sub in s` on strings
Contains(s, sub) ==
    \E i \in 1..(Len(s) - Len(sub) + 1) : SubSeq(s, i, i + Len(sub) - 1) = sub

\* truthiness of an optional string: None and "" are falsy
Truthy(s) == s # None /\ s # <<>>

\* the names of places and the two elevator marks, as character sequences
Names ==
    [TaiBei |-> <<"tai", "bei">>,
     TaiBeiOld |-> <<"tai2", "bei">>,
     XinBei |-> <<"xin", "bei">>,
     TaipeiCity |-> <<"tai", "bei", "shi">>,
     TaipeiCityOld |-> <<"tai2", "bei", "shi">>,
     NewTaipeiCity |-> <<"xin", "bei", "shi">>,
     Kaohsiung |-> <<"gao", "xiong", "shi">>,
     DaAnQu |-> <<"da", "an", "qu">>,
     XinYiQu |-> <<"xin2", "yi2", "qu">>,
     BanQiaoQu |-> <<"ban", "qiao", "qu">>,
     You |-> <<"you">>,
     Wu |-> <<"wu">>]

(***************************************************************************)
(* Tables and filter values                                                *)
(*                                                                         *)
(* A table (DataFrame) is its set of column names and its rows. Column ids:*)
(*   district = U+9109 U+93AE U+5E02 U+5340, price = per-ping unit price,  *)
(*   rooms / halls / baths = the three layout counts, elevator, age,       *)
(*   niandu = transaction year column read by AI_agent's filter,           *)
(*   ymd = transaction date column read by AI_agent's trend chart,         *)
(*   ym = transaction year-month in ROC form YYYMM (agents/tools),         *)
(*   nian / yue = the year and month columns agents/tools derives from ym. *)
(* derived = TRUE once nian / yue were computed from ym by                 *)
(* filter_by_time_range.                                                   *)
(***************************************************************************)
BaseCols == {"district", "price", "rooms", "halls", "baths", "elevator", "age"}

Table(cols, rows, derived) == [cols |-> cols, rows |-> rows, derived |-> derived]

\* a Python value: None, str, int, {min, max} dict, time-range dict, list
V(t, s, n, lo, hi) == [t |-> t, s |-> s, n |-> n, lo |-> lo, hi |-> hi]
VNone == V("none", <<>>, 0, 0, 0)
VStr(s) == V("str", s, 0, 0, 0)
VInt(n) == V("int", <<>>, n, 0, 0)
VTime(lo, hi) == V("time", <<>>, 0, lo, hi)
VList(items) == V("list", items, 0, 0, 0)

\* a == b on two Python values of the kinds None, str, int
PyEq(a, b) == a.t = b.t /\ (IF a.t = "str" THEN a.s = b.s ELSE a.n = b.n)

\* Body applied to the value of v, v being evaluated once
With(v, Body(_)) == CHOOSE r \in {Body(x) : x \in {v}} : TRUE

\* SelectSeq with the row predicate given as a set of kept indices
RECURSIVE KeepRows(_, _, _)
KeepRows(rows, keep, i) ==
    IF i > Len(rows) THEN <<>>
    ELSE (IF i \in keep THEN <<rows[i]>> ELSE <<>>) \o KeepRows(rows, keep, i + 1)

Where(rows, P(_)) == KeepRows(rows, {i \in 1..Len(rows) : P(rows[i])}, 1)

\* str.strip() on a string of characters; " " is the only white space used
RECURSIVE LStrip(_)
LStrip(s) == IF s # <<>> /\ Head(s) = " " THEN LStrip(Tail(s)) ELSE s
RECURSIVE RStrip(_)
RStrip(s) ==
    IF s # <<>> /\ s[Len(s)] = " " THEN RStrip(SubSeq(s, 1, Len(s) - 1)) ELSE s
Strip(s) == RStrip(LStrip(s))

DigitChars == {"0", "1", "2", "3", "4", "5", "6", "7", "8", "9"}
RECURSIVE DigitsVal(_)
DigitsVal(s) ==
    LET DigitVal(c) ==
            CASE c = "0" -> 0 [] c = "1" -> 1 [] c = "2" -> 2 [] c = "3" -> 3
              [] c = "4" -> 4 [] c = "5" -> 5 [] c = "6" -> 6 [] c = "7" -> 7
              [] c = "8" -> 8 [] c = "9" -> 9
    IN
    IF s = <<>> THEN 0
    ELSE DigitsVal(SubSeq(s, 1, Len(s) - 1)) * 10 + DigitVal(s[Len(s)])

\* int(s) on a string: white space stripped, then decimal digits; ok = FALSE
\* is the ValueError
IntParse(s) ==
    LET d == Strip(s) IN
    IF d # <<>> /\ \A i \in 1..Len(d) : d[i] \in DigitChars
    THEN [ok |-> TRUE, n |-> DigitsVal(d)]
    ELSE [ok |-> FALSE, n |-> 0]

\* the value a row holds in a column
Cell(row, attr) ==
    CASE attr = "rooms" -> VInt(row.rooms)
      [] attr = "halls" -> VInt(row.halls)
      [] attr = "baths" -> VInt(row.baths)
      [] attr = "age" -> VInt(row.age)
      [] attr = "elevator" -> VStr(row.elevator)
      [] attr = "district" -> VStr(row.district)
      [] attr = "price" -> VInt(row.price)

(***************************************************************************)
(* AI_agent/data_analysis.py: RealEstateAnalyzer.filter_data_by_attributes *)
(***************************************************************************)

IsDict(v) == v.t \in {"range", "time", "dict"}


\* filter_data_by_attributes(df, filters) of AI_agent: the table returned
FilterDataByAttributesAI(df, filters) ==
    \* the condition one filter entry puts on a row (TRUE: no condition added)
    LET CondAI(cols, row, attr, v) ==
            \* value is None or value == '' or value.strip() == ""
            LET Skipped(x) == x.t = "none" \/ (x.t = "str" /\ Strip(x.s) = <<>>)
            IN
            IF Skipped(v) THEN TRUE
            ELSE IF attr = "time_range" /\ IsDict(v)
            THEN IF "niandu" \in cols /\ v.t = "time" /\ v.lo # 0 /\ v.hi # 0
                 THEN row.year >= v.lo /\ row.year <= v.hi
                 ELSE TRUE
            ELSE IF attr = "age" /\ IsDict(v)
            THEN IF "age" \in cols /\ v.t = "range"
                 THEN row.age >= v.lo /\ row.age <= v.hi
                 ELSE TRUE
            ELSE IF attr \in cols
            THEN IF v.t = "range"
                 THEN Cell(row, attr).n >= v.lo /\ Cell(row, attr).n <= v.hi
                 ELSE IF v.t = "list"
                 THEN v.s = <<>> \/ \E i \in 1..Len(v.s) : Cell(row, attr).n = v.s[i]
                 ELSE IF attr \in {"rooms", "halls", "baths"} /\ v.t = "str"
                         /\ IntParse(v.s).ok
                 THEN PyEq(Cell(row, attr), VInt(IntParse(v.s).n))
                 ELSE PyEq(Cell(row, attr), v)
            ELSE TRUE
    IN
    LET Pass(row) == \A a \in DOMAIN filters : CondAI(df.cols, row, a, filters[a])
    IN Table(df.cols, Where(df.rows, Pass), df.derived)

(***************************************************************************)
(* agents/tools/data_analysis.py: filter_by_time_range,                    *)
(* filter_data_by_attributes                                               *)
(* A function that may write to the DataFrame it is given returns both its *)
(* result (ret) and that DataFrame as it is after the call (arg).          *)
(***************************************************************************)
ROC_OFFSET == 1911

\* the ROC year-month number YYYMM a row holds in column ym
YmOf(row) == (row.year - ROC_OFFSET) * 100 + row.month


\* the value of column nian (transaction year) and yue (month) of a row
YearCell(df, row) ==
    \* str(ym)[:3] and str(ym)[3:] read as int, on the decimal digits of ym
    LET YmHead(ym) == IF ym >= 10000 THEN ym \div 100 ELSE IF ym >= 1000 THEN ym \div 10 ELSE ym
    IN
    IF df.derived THEN YmHead(YmOf(row)) + ROC_OFFSET ELSE row.year

\* filter_by_time_range(df, time_range): when df has no year column the two
\* derived columns are assigned to df itself, then the rows are selected
FilterByTimeRange(df, tr) ==
    IF ~(tr.t = "time") THEN [ret |-> df, arg |-> df]
    ELSE LET withYear ==
                 IF "nian" \notin df.cols /\ "ym" \in df.cols
                 THEN Table(df.cols \cup {"nian", "yue"}, df.rows, TRUE)
                 ELSE df
             InRange(row) == /\ YearCell(withYear, row) >= tr.lo
                             /\ YearCell(withYear, row) <= tr.hi
         IN IF "nian" \in withYear.cols
            THEN [ret |-> Table(withYear.cols, Where(withYear.rows, InRange),
                                withYear.derived),
                  arg |-> withYear]
            ELSE [ret |-> withYear, arg |-> withYear]



\* filter_data_by_attributes(df, filters) of agents/tools: df.copy() first, so
\* df itself is never written to
FilterDataByAttributesTools(df, filters) ==
    LET CondTools(row, attr, v) ==
            \* the entries of agents/tools' filter that compare a column with the value
            LET ToolsEqAttrs == {"rooms", "halls", "baths", "elevator"}
            IN
            IF attr \in ToolsEqAttrs
            THEN v.t = "none" \/ PyEq(Cell(row, attr), v)
            ELSE IF attr = "age"
            THEN IF v.t = "range" THEN row.age >= v.lo /\ row.age <= v.hi
                 ELSE IF v.t = "int" THEN row.age = v.n
                 ELSE TRUE
            ELSE TRUE
    IN
    IF DOMAIN filters = {} THEN df
    ELSE LET timed == IF "time_range" \in DOMAIN filters
                         /\ IsDict(filters["time_range"])
                      THEN FilterByTimeRange(df, filters["time_range"]).ret
                      ELSE df
             Pass(row) == \A a \in DOMAIN filters : CondTools(row, a, filters[a])
         IN Table(timed.cols, Where(timed.rows, Pass), timed.derived)

\* the two implementations of filter_data_by_attributes
FilterDataByAttributes(impl, df, filters) ==
    IF impl = "AI_agent" THEN FilterDataByAttributesAI(df, filters)
    ELSE FilterDataByAttributesTools(df, filters)

(***************************************************************************)
(* calculate_average_price (AI_agent/data_analysis.py and                  *)
(* agents/tools/data_analysis.py hold the same code, each calling its own  *)
(* filter_data_by_attributes)                                              *)
(***************************************************************************)
RECURSIVE SumPrice(_)
SumPrice(rows) == IF rows = <<>> THEN 0 ELSE Head(rows).price + SumPrice(Tail(rows))

\* a mean kept exact as sum and count
Mean(rows) == [isNone |-> FALSE, sum |-> SumPrice(rows), count |-> Len(rows)]
NoMean == [isNone |-> TRUE, sum |-> 0, count |-> 0]

DistrictsOf(rows) == {rows[i].district : i \in 1..Len(rows)}

\* the per-district breakdown is computed for more than this many rows
BREAKDOWN_MIN_COUNT == 10

\* calculate_average_price(df, district, filters)
CalculateAveragePrice(impl, df, district, filters) ==
    LET InDistrict(row) == row.district = district
        byDistrict == IF Truthy(district) /\ district \in DistrictsOf(df.rows)
                      THEN Table(df.cols, Where(df.rows, InDistrict), df.derived)
                      ELSE df
        filtered == IF DOMAIN filters # {}
                    THEN FilterDataByAttributes(impl, byDistrict, filters)
                    ELSE byDistrict
    IN With(filtered.rows, LAMBDA rows :
       LET InD(d) == {i \in 1..Len(rows) : rows[i].district = d} IN
       IF Len(rows) > 0
       THEN [avg_price |-> Mean(rows), count |-> Len(rows),
             district |-> district, error |-> FALSE,
             dataframe |-> IF district = None /\ Len(rows) > BREAKDOWN_MIN_COUNT
                           THEN {[district |-> d,
                                  mean |-> Mean(KeepRows(rows, InD(d), 1))] :
                                 d \in DistrictsOf(rows)}
                           ELSE {}]
       ELSE [avg_price |-> NoMean, count |-> 0, district |-> district,
             error |-> TRUE, dataframe |-> {}])

(***************************************************************************)
(* generate_price_trend_chart                                              *)
(* A result is a Python dict: keys is the set of its keys (empty for {}),  *)
(* isNone = TRUE is a function that returned None. tag names the message,  *)
(* trend the reported direction, buckets the time buckets with their mean. *)
(***************************************************************************)
Result(keys, success, tag, trend, buckets) ==
    [isNone |-> FALSE, keys |-> keys, success |-> success, tag |-> tag,
     trend |-> trend, buckets |-> buckets]
PyNone == [isNone |-> TRUE, keys |-> {}, success |-> FALSE, tag |-> "None",
           trend |-> "", buckets |-> {}]
EmptyDict == Result({}, FALSE, "{}", "", {})
Failure(tag) == Result({"success", "error", "result"}, FALSE, tag, "", {})

\* groupby(key)[price].mean(): one bucket per key value, with its mean
Buckets(rows, Key(_)) ==
    {[key |-> k, mean |-> Mean(KeepRows(rows, {i \in 1..Len(rows) : Key(rows[i]) = k}, 1))] :
        k \in {Key(rows[i]) : i \in 1..Len(rows)}}

FirstBucket(bs) == CHOOSE b \in bs : \A c \in bs : b.key <= c.key
LastBucket(bs) == CHOOSE b \in bs : \A c \in bs : b.key >= c.key

\* last mean - first mean compared with pct percent of the first mean, on
\* the exact fractions: sign of (last - first) / first * 100 - pct
ChangeAbove(first, last, pct) ==
    (last.sum * first.count - first.sum * last.count) * 100
        > pct * first.sum * last.count

\* agents/tools/data_analysis.py
CURRENT_YEAR_TOOLS == 2025
DEFAULT_SPAN_TOOLS == 5
DEADBAND_PERCENT == 5

\* generate_price_trend_chart(df, city, district, chart_type, time_range) of
\* agents/tools; chartOk = FALSE: matplotlib raises while drawing
GeneratePriceTrendChartTools(df, district, tr, chartOk) ==
    LET YmTail(ym) ==
            IF ym >= 10000 THEN ym % 100 ELSE IF ym >= 1000 THEN ym % 10 ELSE 0
        MonthCell(t, row) == IF t.derived THEN YmTail(YmOf(row)) ELSE row.month
    IN
    LET InDistrict(row) == row.district = district
        sel == IF Truthy(district)
               THEN Table(df.cols, Where(df.rows, InDistrict), df.derived)
               ELSE df
        range == IF tr.t = "none"
                 THEN VTime(CURRENT_YEAR_TOOLS - DEFAULT_SPAN_TOOLS, CURRENT_YEAR_TOOLS)
                 ELSE tr
        f == FilterByTimeRange(sel, range)
        \* df[mask] is a new DataFrame: only without a district is sel df itself
        after == IF Truthy(district) THEN df ELSE f.arg
        Key(row) == YearCell(f.ret, row) * 100 + MonthCell(f.ret, row)
        bs == Buckets(f.ret.rows, Key)
        first == FirstBucket(bs).mean
        last == LastBucket(bs).mean
        ChangeBelow(pct) ==
            (last.sum * first.count - first.sum * last.count) * 100
                < pct * first.sum * last.count
        trend == IF ChangeAbove(first, last, DEADBAND_PERCENT) THEN "up"
                 ELSE IF ChangeBelow(0 - DEADBAND_PERCENT) THEN "down"
                 ELSE "stable"
    IN IF df.rows = <<>> THEN [ret |-> Failure("empty"), arg |-> df]
       ELSE IF sel.rows = <<>> THEN [ret |-> Failure("no_district"), arg |-> df]
       ELSE IF "ym" \notin sel.cols THEN [ret |-> Failure("no_date_column"), arg |-> df]
       ELSE IF f.ret.rows = <<>> THEN [ret |-> Failure("no_data_in_range"), arg |-> after]
       ELSE IF {"nian", "yue"} \subseteq f.ret.cols /\ Cardinality(bs) > 1 /\ chartOk
       THEN [ret |-> Result({"success", "result", "has_chart", "chart_image",
                             "trend_direction", "time_range", "dataframe"},
                            TRUE, "trend", trend, bs),
             arg |-> after]
       \* KeyError of the groupby, NameError of percent_change with one
       \* bucket, or an error while drawing: all caught by the except clause
       ELSE [ret |-> Failure("exception"), arg |-> after]

\* AI_agent/data_analysis.py: RealEstateAnalyzer.generate_price_trend_chart;
\* it works on df.copy() and returns None when an exception is caught
GeneratePriceTrendChartAI(df, district, tr, chartOk) ==
    LET InDistrict(row) == row.district = district
        InRange(row) == /\ (tr.lo # 0 => row.year >= tr.lo)
                        /\ (tr.hi # 0 => row.year <= tr.hi)
        ByMonth(row) == row.year * 100 + row.month
        ByYear(row) == row.year
        Years(rows) == {rows[i].year : i \in 1..Len(rows)}
        Trend(bs) ==
            IF ChangeAbove(FirstBucket(bs).mean, LastBucket(bs).mean, 0)
            THEN "up" ELSE "down"
        Chart(bs) ==
            IF Cardinality(bs) < 2
            THEN Result({"success", "error", "result", "dataframe"}, FALSE,
                        "not_enough_points", "", bs)
            ELSE IF chartOk
            THEN Result({"success", "result", "dataframe", "trend_direction",
                         "price_change_percent", "chart_image", "has_chart",
                         "chart_type", "time_range"}, TRUE, "trend", Trend(bs), bs)
            ELSE PyNone
        Grouped(rows) ==
            IF rows = <<>> THEN Failure("no_data_in_range")
            ELSE With(IF Cardinality(Years(rows)) = 1 THEN Buckets(rows, ByMonth)
                      ELSE Buckets(rows, ByYear),
                      Chart)
        Selected(sel) ==
            IF Truthy(district) /\ sel = <<>> THEN Failure("no_district")
            ELSE With(IF tr.t = "time" THEN Where(sel, InRange) ELSE sel, Grouped)
    IN IF "ymd" \notin df.cols THEN Failure("no_date_column")
       ELSE With(IF Truthy(district) THEN Where(df.rows, InDistrict) ELSE df.rows,
                 Selected)

(***************************************************************************)
(* The table operations as a state machine: a caller holds one loaded      *)
(* table and calls the operations on it in any order                       *)
(***************************************************************************)

Row(d, y, m, p, rooms, el, age) ==
    [district |-> d, year |-> y, month |-> m, price |-> p, rooms |-> rooms,
     halls |-> 2, baths |-> 1, elevator |-> el, age |-> age]

SampleRows ==
    << Row(Names.DaAnQu, 2024, 3, 100, 3, Names.You, 10),
       Row(Names.DaAnQu, 2024, 7, 120, 2, Names.You, 25),
       Row(Names.XinYiQu, 2022, 5, 90, 3, Names.Wu, 30) >>

\* the column sets a loaded table may have
ColsAI == BaseCols \cup {"niandu", "ymd"}


Impls == {"AI_agent", "tools"}

EmptyFilters == [a \in {} |-> VNone]
BaseFilterInputs ==
    {EmptyFilters, ("elevator" :> VStr(Names.You)), ("time_range" :> VTime(2024, 2024))}


\* null, empty string, blank string
EmptyValues == {VNone, VStr(<<>>), VStr(<<" ">>)}


DistrictInputs == {None, Names.DaAnQu, Names.BanQiaoQu}

NoAnaOp ==
    [name |-> "none", impl |-> "", district |-> None, filters |-> EmptyFilters,
     attr |-> "", value |-> VNone, given |-> Table({}, <<>>, FALSE),
     retTable |-> Table({}, <<>>, FALSE), omitted |-> Table({}, <<>>, FALSE),
     stats |-> [avg_price |-> NoMean, count |-> 0, district |-> None,
                error |-> FALSE, dataframe |-> {}],
     result |-> PyNone]

AnalysisIdle ==
    /\ table = Table({}, <<>>, FALSE)
    /\ loadedTable = table
    /\ anaOp = NoAnaOp

\* filter_data_by_attributes(table, filters) with one more entry attr: value
\* than a base mapping; omitted is what the base mapping alone returns
CallFilterDataByAttributes ==
    LET ValueInputs(attr) ==
            EmptyValues \cup
            (CASE attr = "time_range" -> {VTime(2023, 2025)}
               [] attr = "elevator" -> {VStr(Names.Wu)}
               [] attr = "age" -> {VInt(10), V("range", <<>>, 0, 0, 20)}
               [] OTHER -> {VInt(3), VStr(<<"3">>), VStr(<<"san">>), VList(<<2, 3>>)})
    IN
    LET FilterAttrs == {"time_range", "rooms", "halls", "baths", "elevator", "age"}
    IN
    \E impl \in Impls, base \in BaseFilterInputs :
    \E attr \in FilterAttrs \ DOMAIN base :
    \E v \in ValueInputs(attr) :
        \* a list of choices is a value of AI_agent's filter only
        /\ impl = "tools" => v.t # "list"
        /\ anaOp' = [NoAnaOp EXCEPT
                !.name = "filter_data_by_attributes", !.impl = impl,
                !.filters = (attr :> v) @@ base, !.attr = attr, !.value = v,
                !.given = table,
                !.retTable = FilterDataByAttributes(impl, table, (attr :> v) @@ base),
                !.omitted = FilterDataByAttributes(impl, table, base)]
        /\ UNCHANGED <<table, loadedTable>>
        /\ UNCHANGED <<cacheVars, pipeVars>>

\* filter_by_time_range(table, time_range) of agents/tools
CallFilterByTimeRange ==
    \E tr \in {VNone, VTime(2023, 2025)} :
        LET r == FilterByTimeRange(table, tr) IN
        /\ table' = r.arg
        /\ anaOp' = [NoAnaOp EXCEPT !.name = "filter_by_time_range",
                        !.impl = "tools", !.value = tr, !.given = table,
                        !.retTable = r.ret]
        /\ UNCHANGED loadedTable
        /\ UNCHANGED <<cacheVars, pipeVars>>

\* calculate_average_price(table, district, filters)
CallCalculateAveragePrice ==
    \E impl \in Impls, district \in DistrictInputs, f \in BaseFilterInputs :
        /\ anaOp' = [NoAnaOp EXCEPT !.name = "calculate_average_price",
                        !.impl = impl, !.district = district, !.filters = f,
                        !.given = table,
                        !.stats = CalculateAveragePrice(impl, table, district, f)]
        /\ UNCHANGED <<table, loadedTable>>
        /\ UNCHANGED <<cacheVars, pipeVars>>

\* generate_price_trend_chart(table, city, district, chart_type, time_range)
CallGeneratePriceTrendChart ==
    \E impl \in Impls, district \in DistrictInputs, chartOk \in BOOLEAN :
    \E tr \in {VNone, VTime(2023, 2025), VTime(2022, 2022)} :
        LET r == IF impl = "tools"
                 THEN GeneratePriceTrendChartTools(table, district, tr, chartOk)
                 ELSE [ret |-> GeneratePriceTrendChartAI(table, district, tr, chartOk),
                       arg |-> table] IN
        /\ table' = r.arg
        /\ anaOp' = [NoAnaOp EXCEPT !.name = "generate_price_trend_chart",
                        !.impl = impl, !.district = district, !.value = tr,
                        !.given = table, !.result = r.ret]
        /\ UNCHANGED loadedTable
        /\ UNCHANGED <<cacheVars, pipeVars>>

NextAnalysis ==
    \/ CallFilterDataByAttributes
    \/ CallFilterByTimeRange
    \/ CallCalculateAveragePrice
    \/ CallGeneratePriceTrendChart

(***************************************************************************)
(* Data cache: agents/tools/data_loader.py and data_agent/data_loader.py   *)
(* (the two files hold the same code, the second as static methods)        *)
(***************************************************************************)
CACHE_EXPIRY_SECONDS == 3600

\* bounds of the clock: the largest time, and the two amounts it advances by
MaxNow == 7200
StepA == 1800
StepB == 1799

Keys == {"taipei", "newtaipei", "all"}

\* A table is the set of its rows' origins: the city file a row came from and
\* the time that file was read. isdf = FALSE is Python's None in a table slot.
NoTable == [isdf |-> FALSE, rows |-> {}]
NoTime == [set |-> FALSE, t |-> 0]
Stamp(t) == [set |-> TRUE, t |-> t]

\* pd.read_csv of one city file at time t
ReadCsv(file, t) == [isdf |-> TRUE, rows |-> {[file |-> file, readAt |-> t]}]
\* pd.concat([a, b], ignore_index=True)
Concat(a, b) == [isdf |-> TRUE, rows |-> a.rows \cup b.rows]

\* the cache key of load_city_data
CacheKey(city) ==
    IF Truthy(city) /\ (Contains(city, Names.TaiBei) \/ Contains(city, Names.TaiBeiOld))
    THEN "taipei"
    ELSE IF Truthy(city) /\ Contains(city, Names.XinBei) THEN "newtaipei" ELSE "all"

\* an entry is still fresh at time t
Fresh(loaded, key, t) == t - loaded[key].t < CACHE_EXPIRY_SECONDS

FreshLe(loaded, key, t) == t - loaded[key].t <= CACHE_EXPIRY_SECONDS

\* the validity test of load_city_data: enabled, table and stamp present, fresh
CacheValidLe(enabled, cache, loaded, key, t) ==
    /\ enabled
    /\ cache[key].isdf
    /\ loaded[key].set
    /\ FreshLe(loaded, key, t)

CacheValid(enabled, cache, loaded, key, t) ==
    /\ enabled
    /\ cache[key].isdf
    /\ loaded[key].set
    /\ Fresh(loaded, key, t)


\* load_city_data(city) called at time t: the table returned, where it came
\* from, the cache entries it was built from, and the cache afterwards
LoadCityData(city, enabled, cache, loaded, t) ==
    \* the test before merging the two cached city tables
    LET MergeValid ==
            /\ enabled
            /\ cache["taipei"].isdf
            /\ cache["newtaipei"].isdf
            /\ loaded["taipei"].set
            /\ loaded["newtaipei"].set
            /\ Fresh(loaded, "taipei", t)
            /\ Fresh(loaded, "newtaipei", t)
    IN
    LET key == CacheKey(city) IN
    IF CacheValid(enabled, cache, loaded, key, t)
    THEN [ret |-> cache[key], source |-> "cache", used |-> {key},
          cache |-> cache, loaded |-> loaded]
    ELSE IF key # "all"
    THEN LET df == ReadCsv(key, t) IN
         [ret |-> df, source |-> "files", used |-> {},
          cache |-> IF enabled THEN [cache EXCEPT ![key] = df] ELSE cache,
          loaded |-> IF enabled THEN [loaded EXCEPT ![key] = Stamp(t)]
                     ELSE loaded]
    ELSE IF MergeValid
    THEN LET df == Concat(cache["taipei"], cache["newtaipei"]) IN
         [ret |-> df, source |-> "merge", used |-> {"taipei", "newtaipei"},
          cache |-> [cache EXCEPT !["all"] = df],
          loaded |-> [loaded EXCEPT !["all"] = Stamp(t)]]
    ELSE LET tp == ReadCsv("taipei", t)
             ntp == ReadCsv("newtaipei", t)
             df == Concat(tp, ntp) IN
         [ret |-> df, source |-> "files", used |-> {},
          cache |-> IF enabled
                    THEN [k \in Keys |->
                            IF k = "taipei" THEN tp
                            ELSE IF k = "newtaipei" THEN ntp ELSE df]
                    ELSE cache,
          loaded |-> IF enabled THEN [k \in Keys |-> Stamp(t)] ELSE loaded]

\* the key clear_cache(city) clears for a city that is not None
ClearKey(city) ==
    IF Contains(city, Names.TaiBei) \/ Contains(city, Names.TaiBeiOld) THEN "taipei"
    ELSE IF Contains(city, Names.XinBei) THEN "newtaipei" ELSE "none"

\* a clear_cache(city) that forgets the merged entry
ClearCacheKeepAll(city, cache, loaded) ==
    IF city = None
    THEN [cache |-> [k \in Keys |-> NoTable], loaded |-> [k \in Keys |-> NoTime]]
    ELSE LET key == ClearKey(city) IN
         IF key \in Keys
         THEN [cache |-> [cache EXCEPT ![key] = NoTable],
               loaded |-> [loaded EXCEPT ![key] = NoTime]]
         ELSE [cache |-> cache, loaded |-> loaded]

\* clear_cache(city): the cache afterwards
ClearCache(city, cache, loaded) ==
    IF city = None
    THEN [cache |-> [k \in Keys |-> NoTable], loaded |-> [k \in Keys |-> NoTime]]
    ELSE LET key == ClearKey(city) IN
         IF key \in Keys
         THEN [cache |-> [cache EXCEPT ![key] = NoTable, !["all"] = NoTable],
               loaded |-> [loaded EXCEPT ![key] = NoTime, !["all"] = NoTime]]
         ELSE [cache |-> cache, loaded |-> loaded]

\* the city arguments tried: the two supported cities (Taipei in both
\* spellings), an unsupported city, the empty string and None
CityInputs == {Names.TaipeiCity, Names.TaipeiCityOld, Names.NewTaipeiCity, Names.Kaohsiung, <<>>, None}

\* get_cache_status(): what it reports for each key. A field the entry of
\* an implementation does not hold is "missing"; data_agent's DataLoader
\* reports cached / expired, agents/tools reports is_valid.
GetCacheStatus(impl, cache, loaded, t) ==
    [k \in Keys |->
        IF impl = "data_agent"
        THEN IF cache[k].isdf
             THEN IF loaded[k].set
                  THEN [cached |-> "True",
                        expired |-> IF t - loaded[k].t > CACHE_EXPIRY_SECONDS
                                    THEN "True" ELSE "False",
                        is_valid |-> "missing"]
                  ELSE [cached |-> "True", expired |-> "True",
                        is_valid |-> "missing"]
             ELSE [cached |-> "False", expired |-> "missing",
                   is_valid |-> "missing"]
        ELSE [cached |-> "missing", expired |-> "missing",
              is_valid |-> IF cache[k].isdf /\ loaded[k].set
                              /\ t - loaded[k].t < CACHE_EXPIRY_SECONDS
                           THEN "True" ELSE "False"]]

NoOp == [name |-> "init", city |-> None, at |-> 0,
         ret |-> NoTable, source |-> "none", used |-> {},
         impl |-> "tools",
         status |-> [k \in Keys |-> [cached |-> "missing", expired |-> "missing",
                                     is_valid |-> "missing"]]]

\* no such load_city_data call is in progress
NoLoader == [pc |-> "idle", city |-> None, key |-> "all", at |-> 0,
             ret |-> NoTable, raised |-> FALSE]

CacheIdle ==
    /\ loader = NoLoader
    /\ cacheEnabled = FALSE
    /\ dataCache = [k \in Keys |-> NoTable]
    /\ lastLoaded = [k \in Keys |-> NoTime]
    /\ now = 0
    /\ op = NoOp
    /\ pre = [enabled |-> FALSE, cache |-> [k \in Keys |-> NoTable],
              loaded |-> [k \in Keys |-> NoTime]]

Snapshot == [enabled |-> cacheEnabled, cache |-> dataCache, loaded |-> lastLoaded]

\* time passes between two calls
Tick ==
    /\ \E d \in {StepA, StepB} : now + d <= MaxNow /\ now' = now + d
    /\ op' = [NoOp EXCEPT !.name = "tick", !.at = now']
    /\ pre' = Snapshot
    /\ UNCHANGED <<cacheEnabled, dataCache, lastLoaded>>
    /\ UNCHANGED <<loader, anaVars, pipeVars>>

\* an enable_cache(enabled) that only sets the flag
EnableCacheOnlyFlag ==
    \E enabled \in BOOLEAN :
        /\ cacheEnabled' = enabled
        /\ op' = [NoOp EXCEPT !.name = "enable_cache", !.at = now]
        /\ pre' = Snapshot
        /\ UNCHANGED <<dataCache, lastLoaded, now>>
        /\ UNCHANGED <<loader, anaVars, pipeVars>>

\* enable_cache(enabled)
EnableCache ==
    \E enabled \in BOOLEAN :
        LET cleared == ClearCache(None, dataCache, lastLoaded) IN
        /\ cacheEnabled' = enabled
        /\ dataCache' = IF enabled THEN dataCache ELSE cleared.cache
        /\ lastLoaded' = IF enabled THEN lastLoaded ELSE cleared.loaded
        /\ op' = [NoOp EXCEPT !.name = "enable_cache", !.at = now]
        /\ pre' = Snapshot
        /\ UNCHANGED now
        /\ UNCHANGED <<loader, anaVars, pipeVars>>

\* load_city_data(city)
Load ==
    \E city \in CityInputs :
        LET r == LoadCityData(city, cacheEnabled, dataCache, lastLoaded, now) IN
        /\ dataCache' = r.cache
        /\ lastLoaded' = r.loaded
        /\ op' = [NoOp EXCEPT !.name = "load_city_data", !.city = city,
                              !.at = now, !.ret = r.ret, !.source = r.source,
                              !.used = r.used]
        /\ pre' = Snapshot
        /\ UNCHANGED <<cacheEnabled, now>>
        /\ UNCHANGED <<loader, anaVars, pipeVars>>

\* clear_cache(city)
Clear ==
    \E city \in CityInputs :
        LET r == ClearCache(city, dataCache, lastLoaded) IN
        /\ dataCache' = r.cache
        /\ lastLoaded' = r.loaded
        /\ op' = [NoOp EXCEPT !.name = "clear_cache", !.city = city, !.at = now]
        /\ pre' = Snapshot
        /\ UNCHANGED <<cacheEnabled, now>>
        /\ UNCHANGED <<loader, anaVars, pipeVars>>

\* get_cache_status() of either loader
Status ==
    \E impl \in {"tools", "data_agent"} :
        /\ op' = [NoOp EXCEPT !.name = "get_cache_status", !.at = now,
                              !.impl = impl,
                              !.status = GetCacheStatus(impl, dataCache,
                                                        lastLoaded, now)]
        /\ pre' = Snapshot
        /\ UNCHANGED <<cacheEnabled, dataCache, lastLoaded, now>>
        /\ UNCHANGED <<loader, anaVars, pipeVars>>

NextCache == Tick \/ EnableCache \/ Load \/ Clear \/ Status

(***************************************************************************)
(* load_city_data of one request, running while another request calls     *)
(* enable_cache and clear_cache: nothing synchronizes the two, so each     *)
(* read of _CACHE_ENABLED and of _DATA_CACHE is a step of its own and the  *)
(* calls of the other request can run between any two of them. The city is *)
(* one of the two supported cities; reading the file and storing the       *)
(* result is one step.                                                     *)
(***************************************************************************)
\* enable_cache(enabled) of the other request
OtherEnableCache ==
    /\ \E enabled \in BOOLEAN :
          LET cleared == ClearCache(None, dataCache, lastLoaded) IN
          /\ cacheEnabled' = enabled
          /\ dataCache' = IF enabled THEN dataCache ELSE cleared.cache
          /\ lastLoaded' = IF enabled THEN lastLoaded ELSE cleared.loaded
    /\ UNCHANGED <<now, op, pre, loader>>
    /\ UNCHANGED <<anaVars, pipeVars>>

\* clear_cache(city) of the other request
OtherClearCache ==
    /\ \E city \in {None, Names.TaipeiCity, Names.NewTaipeiCity} :
          LET r == ClearCache(city, dataCache, lastLoaded) IN
          /\ dataCache' = r.cache
          /\ lastLoaded' = r.loaded
    /\ UNCHANGED <<cacheEnabled, now, op, pre, loader>>
    /\ UNCHANGED <<anaVars, pipeVars>>

LoaderGoes(pc) ==
    /\ loader' = [loader EXCEPT !.pc = pc]
    /\ UNCHANGED <<cacheEnabled, dataCache, lastLoaded, now, op, pre>>
    /\ UNCHANGED <<anaVars, pipeVars>>

\* the call starts: cache_key and now = time.time()
LoadStart ==
    /\ loader.pc \in {"idle", "done"}
    /\ \E city \in {Names.TaipeiCity, Names.NewTaipeiCity} :
          loader' = [NoLoader EXCEPT !.pc = "test_enabled", !.city = city,
                                     !.key = CacheKey(city), !.at = now]
    /\ UNCHANGED <<cacheEnabled, dataCache, lastLoaded, now, op, pre>>
    /\ UNCHANGED <<anaVars, pipeVars>>

\* _CACHE_ENABLED
LoadTestEnabled ==
    /\ loader.pc = "test_enabled"
    /\ LoaderGoes(IF cacheEnabled THEN "test_table" ELSE "reload")

\* and _DATA_CACHE[cache_key] is not None
LoadTestTable ==
    /\ loader.pc = "test_table"
    /\ LoaderGoes(IF dataCache[loader.key].isdf THEN "test_stamp" ELSE "reload")

\* and _DATA_CACHE["last_loaded"][cache_key] is not None
LoadTestStamp ==
    /\ loader.pc = "test_stamp"
    /\ LoaderGoes(IF lastLoaded[loader.key].set THEN "test_fresh" ELSE "reload")

\* a number minus None raises TypeError
StampGone ==
    /\ ~lastLoaded[loader.key].set
    /\ loader' = [loader EXCEPT !.pc = "done", !.raised = TRUE]
    /\ UNCHANGED <<cacheEnabled, dataCache, lastLoaded, now, op, pre>>
    /\ UNCHANGED <<anaVars, pipeVars>>

\* and now - _DATA_CACHE["last_loaded"][cache_key] < CACHE_EXPIRY_SECONDS:
\* the timestamp is read again
LoadTestFresh ==
    /\ loader.pc = "test_fresh"
    /\ \/ StampGone
       \/ /\ lastLoaded[loader.key].set
          /\ LoaderGoes(IF Fresh(lastLoaded, loader.key, loader.at)
                        THEN "log_age" ELSE "reload")

\* the log line of the cached branch reads the timestamp once more
LoadLogAge ==
    /\ loader.pc = "log_age"
    /\ \/ StampGone
       \/ /\ lastLoaded[loader.key].set
          /\ LoaderGoes("return_cached")

\* return _DATA_CACHE[cache_key]
LoadReturnCached ==
    /\ loader.pc = "return_cached"
    /\ loader' = [loader EXCEPT !.pc = "done", !.ret = dataCache[loader.key]]
    /\ UNCHANGED <<cacheEnabled, dataCache, lastLoaded, now, op, pre>>
    /\ UNCHANGED <<anaVars, pipeVars>>

\* the file is read, stored if caching is enabled, and returned
LoadReload ==
    /\ loader.pc = "reload"
    /\ LET df == ReadCsv(loader.key, loader.at) IN
       /\ loader' = [loader EXCEPT !.pc = "done", !.ret = df]
       /\ dataCache' = IF cacheEnabled THEN [dataCache EXCEPT ![loader.key] = df]
                       ELSE dataCache
       /\ lastLoaded' = IF cacheEnabled
                        THEN [lastLoaded EXCEPT ![loader.key] = Stamp(loader.at)]
                        ELSE lastLoaded
    /\ UNCHANGED <<cacheEnabled, now, op, pre>>
    /\ UNCHANGED <<anaVars, pipeVars>>

NextRace ==
    \/ Tick
    \/ OtherEnableCache
    \/ OtherClearCache
    \/ LoadStart
    \/ LoadTestEnabled
    \/ LoadTestTable
    \/ LoadTestStamp
    \/ LoadTestFresh
    \/ LoadLogAge
    \/ LoadReturnCached
    \/ LoadReload

(***************************************************************************)
(* Query pipeline: AI_agent/utils.py, query_processor.py, api.py           *)
(*                                                                         *)
(* A query text is the sequence of its characters. A Python dict whose     *)
(* values are Python values is a function from its keys; the keys of the   *)
(* parsed record are city, district, time_range and the filter attributes. *)
(***************************************************************************)
PRICE_KEYWORDS ==
    << <<"fang", "jia">>,
       <<"jia", "ge">>,
       <<"hang", "qing">>,
       <<"jun", "jia">>,
       <<"dan", "jia">>,
       <<"duo", "shao", "qian">>,
       <<"jia", "wei">>,
       <<"ping", "jun">>,
       <<"zhi", "duo", "shao">>,
       <<"fang", "zi", "duo", "shao">>,
       <<"yi", "ping2">>,
       <<"mei", "ping2">> >>

PLOT_KEYWORDS ==
    << <<"tu", "biao">>,
       <<"tong", "ji", "tu">>,
       <<"chang", "tiao", "tu">>,
       <<"zhe", "xian", "tu">>,
       <<"yuan", "bing", "tu">>,
       <<"shi2", "jue", "hua">>,
       <<"qu2", "shi3", "tu">>,
       <<"fen", "bu", "tu">>,
       <<"bi", "jiao", "tu">>,
       <<"zou", "shi3">>,
       <<"xian2", "shi4">>,
       <<"zhi2", "tu">>,
       <<"hua2", "chu">>,
       <<"hui", "zhi2">>,
       <<"shi2", "jue", "cheng", "xian3">>,
       <<"tu", "xing">>,
       <<"qu2", "shi3">>,
       <<"zou", "shi3">>,
       <<"bian", "hua">>,
       <<"zhang", "die">>,
       <<"cheng2", "chang">>,
       <<"li", "shi5">> >>

\* the alternatives of the groups in price_patterns
PatternTokens ==
    LET short == { <<"da", "an">>,
                       <<"xin2", "yi2">>,
                       <<"zhong", "zheng">>,
                       <<"song", "shan">>,
                       <<"da", "tong2">>,
                       <<"wan", "hua3">>,
                       <<"wen", "shan">>,
                       <<"nan", "gang">>,
                       <<"nei", "hu">>,
                       <<"shi6", "lin">>,
                       <<"bei", "tou">>,
                       <<"ban", "qiao">>,
                       <<"san", "chong">>,
                       <<"zhong", "he">>,
                       <<"yong", "he">>,
                       <<"xin", "zhuang">>,
                       <<"xin", "dian">>,
                       <<"xi", "zhi3">>,
                       <<"dan2", "shui">> }
    IN [city |-> { <<"xin", "bei", "shi">>, <<"tai", "bei", "shi">>, <<"tai2", "bei", "shi">> },
        price |-> { <<"fang", "jia">>,
                       <<"jia", "ge">>,
                       <<"hang", "qing">>,
                       <<"jun", "jia">>,
                       <<"dan", "jia">> },
        how_much |-> <<"duo", "shao", "qian">>,
        short_district |-> short,
        full_district |-> {x \o <<"qu">> : x \in short},
        how |-> { <<"duo", "shao">>, <<"ru", "he2">> }]

\* the query texts the functions are called with
Texts ==
    [PlotAndPrice |->
        <<"tai", "bei", "shi", "fang", "jia", "qu2", "shi3", "tu">>,
     PriceWithPlace |->
        <<"tai", "bei", "shi", "da", "an", "qu", "de", "ping", "jun", "fang", "jia">>,
     PriceNoPlace |->
        <<"ping", "jun", "yi", "ping2", "duo", "shao", "qian">>,
     DistrictHow |->
        <<"da", "an", "qu", "sheng", "huo", "ji2", "neng", "ru", "he2">>,
     PriceThenDistrict |->
        <<"fang", "jia", "gao", "de", "xin2", "yi2">>,
     PriceThenCity |->
        <<"hang", "qing", "hao", "de", "xin", "bei", "shi">>,
     DistrictThenPrice |->
        <<"ban", "qiao", "de", "dan", "jia">>,
     HowMuchThenCity |->
        <<"duo", "shao", "qian", "xin", "bei", "shi">>,
     HowThenDistrict |->
        <<"ru", "he2", "da", "an", "qu">>,
     CityNewlinePrice |->
        <<"tai", "bei", "shi", "nl", "fang", "jia">>,
     PlotOnly |->
        <<"hua2", "chu", "tu", "xing">>,
     ShortPlain |->
        <<"da", "an", "qu", "you", "hao", "de", "she", "qu", "ma">>,
     Plain24 |->
        <<"wo", "xiang", "zhao", "shi7", "he3", "jia2", "ting", "ju", "zhu", "er", "qie", "sheng", "huo", "ji2", "neng", "bian2", "li2", "de", "di", "fang2", "zai", "na", "li3", "ne">>,
     Plain25 |->
        <<"wo", "xiang", "zhao", "shi7", "he3", "jia2", "ting", "ju", "zhu", "er", "qie", "sheng", "huo", "ji2", "neng", "bian2", "li2", "de", "di", "fang2", "zai", "na", "li3", "ne", "?">>,
     PriceChange |->
        <<"xin", "bei", "shi", "fang", "jia", "bian", "hua">>,
     LongPrice |->
        <<"wo", "xiang", "zhao", "shi7", "he3", "jia2", "ting", "ju", "zhu", "er", "qie", "sheng", "huo", "ji2", "neng", "bian2", "li2", "de", "di", "fang2", "ping", "jun", "duo", "shao", "qian", "ne">>,
     Plain26 |->
        <<"wo", "xiang", "zhao", "shi7", "he3", "jia2", "ting", "ju", "zhu", "er", "qie", "sheng", "huo", "ji2", "neng", "bian2", "li2", "de", "di", "fang2", "zai", "na", "li3", "hao", "ne", "?">>,
     LongDistrictHow |->
        <<"wo", "xiang", "zhao", "shi7", "he3", "jia2", "ting", "ju", "zhu", "er", "qie", "sheng", "huo", "ji2", "neng", "bian2", "li2", "de", "di", "fang2", "da", "an", "qu", "ru", "he2", "ne">>]

\* any(keyword in text for keyword in keywords)
AnyKeyword(text, keywords) ==
    \E keyword \in {keywords[i] : i \in 1..Len(keywords)} : Contains(text, keyword)

\* re.search of (a1|a2|..).*?(b1|b2|..): some a, then any characters other
\* than a line break, then some b
OccursAt(text, w, i) ==
    i + Len(w) - 1 <= Len(text) /\ SubSeq(text, i, i + Len(w) - 1) = w

SearchThen(text, as, bs) ==
    \E a \in as : \E i \in 1..Len(text) :
        /\ OccursAt(text, a, i)
        /\ \E b \in bs : \E j \in (i + Len(a))..Len(text) :
              /\ OccursAt(text, b, j)
              /\ \A k \in (i + Len(a))..(j - 1) : text[k] # "nl"

\* the five price_patterns, in the order of the list
PricePattern(n, text) ==
    CASE n = 1 -> SearchThen(text, PatternTokens.city,
                             PatternTokens.price \cup {PatternTokens.how_much})
      [] n = 2 -> SearchThen(text, PatternTokens.price, PatternTokens.city)
      [] n = 3 -> SearchThen(text, PatternTokens.short_district, PatternTokens.price)
      [] n = 4 -> SearchThen(text, PatternTokens.price, PatternTokens.short_district)
      [] n = 5 -> SearchThen(text, PatternTokens.full_district, PatternTokens.how)

PRICE_PATTERN_COUNT == 5
SHORT_QUERY_LENGTH == 25

\* dict.get(key): None for a key the dict does not hold
Get(d, key) == IF key \in DOMAIN d THEN d[key] ELSE VNone

EmptyParams == [a \in {} |-> VNone]

\* bool(v) of a Python value
VTruthy(v) ==
    CASE v.t = "none" -> FALSE
      [] v.t \in {"str", "list"} -> v.s # <<>>
      [] v.t = "int" -> v.n # 0
      [] OTHER -> TRUE

\* QueryType.PLOT, QueryType.AVERAGE_PRICE, QueryType.OTHER
QT_PLOT == "plot"
QT_AVERAGE_PRICE == "price"
QT_OTHER == "other"

(***************************************************************************)
(* utils.py: parse_query_to_json                                           *)
(* resp is what the model call and the output parser do: kind "raise" is   *)
(* llm.invoke raising, "malformed" is output_parser.parse raising (no JSON *)
(* block, or a schema key missing), "ok" is a parsed dict out holding all  *)
(* keys of the schema. A called function returns raised (an exception      *)
(* left it) and value (what it returned otherwise).                        *)
(***************************************************************************)

NullString == <<"n", "u", "l", "l">>

\* CURRENT_YEAR of AI_agent/config.py
CURRENT_YEAR == 2025
DEFAULT_START_YEAR == 2015
DEFAULT_END_YEAR == 2024
DefaultDescription == <<"2015-2024", "nian">>

\* {"start_year": lo, "end_year": hi, "description": desc}
TimeRangeDict(lo, hi, desc) == V("time", desc, 0, lo, hi)

\* v in [None, "null"]
IsNullOrNullString(v) == v.t = "none" \/ (v.t = "str" /\ v.s = NullString)

\* one member  "key": integer  of a JSON object; a key is one token
JsonMember(m) ==
    LET digits == SubSeq(m, 3, Len(m)) IN
    IF /\ Len(m) >= 3
       /\ m[2] = ":"
       /\ \A i \in 1..Len(digits) : digits[i] \in DigitChars
       /\ (Len(digits) > 1 => digits[1] # "0")
    THEN [ok |-> TRUE, key |-> m[1], n |-> DigitsVal(digits)]
    ELSE [ok |-> FALSE, key |-> "", n |-> 0]

\* json.loads on a text { member , member }: ok = FALSE is the ValueError.
\* A dict holding start_year and end_year is a time-range dict, another
\* dict is a dict without these keys.
JsonLoads(s) ==
    LET inner == SubSeq(s, 2, Len(s) - 1)
        commas == {i \in 1..Len(inner) : inner[i] = ","}
        failed == [ok |-> FALSE, v |-> VNone]
    IN IF Cardinality(commas) # 1 THEN failed
       ELSE
       With(CHOOSE i \in commas : TRUE, LAMBDA c :
       With(JsonMember(SubSeq(inner, 1, c - 1)), LAMBDA a :
       With(JsonMember(SubSeq(inner, c + 1, Len(inner))), LAMBDA b :
           IF a.ok /\ b.ok
           THEN [ok |-> TRUE,
                 v |-> IF a.key = "start_year" /\ b.key = "end_year"
                       THEN TimeRangeDict(a.n, b.n, <<>>)
                       ELSE IF a.key = "end_year" /\ b.key = "start_year"
                       THEN TimeRangeDict(b.n, a.n, <<>>)
                       ELSE V("dict", <<>>, 0, 0, 0)]
           ELSE failed)))

\* a parse_query_to_json whose except clause returns an empty dict
ParseQueryToJsonEmptyOnFailure(resp) ==
    IF resp.kind # "ok"
    THEN [raised |-> FALSE, value |-> EmptyParams]
    ELSE [raised |-> FALSE,
          value |-> IF IsNullOrNullString(Get(resp.out, "time_range"))
                    THEN ("time_range" :>
                             TimeRangeDict(DEFAULT_START_YEAR, DEFAULT_END_YEAR,
                                           DefaultDescription)) @@ resp.out
                    ELSE resp.out]

\* parse_query_to_json(llm_service, query_text)
ParseQueryToJson(resp) ==
    LET DefaultDescriptionOnFailure == <<"2015-2024", "nian", "(", "mo", "ren", ")">>
    IN
    IF resp.kind # "ok"
    THEN \* the except clause: the minimal dict
         [raised |-> FALSE,
          value |-> ("time_range" :>
                        TimeRangeDict(DEFAULT_START_YEAR, DEFAULT_END_YEAR,
                                      DefaultDescriptionOnFailure))]
    ELSE LET out == resp.out
             Loaded(tr) ==
                 IF /\ VTruthy(tr)
                    /\ ~IsNullOrNullString(tr)
                    /\ tr.t = "str"
                    /\ Head(tr.s) = "{"
                    /\ tr.s[Len(tr.s)] = "}"
                 THEN With(JsonLoads(tr.s), LAMBDA json :
                           IF json.ok THEN ("time_range" :> json.v) @@ out ELSE out)
                 ELSE out
         IN With(Loaded(Get(out, "time_range")), LAMBDA loaded :
            [raised |-> FALSE,
             value |-> IF \/ "time_range" \notin DOMAIN loaded
                          \/ IsNullOrNullString(loaded["time_range"])
                       THEN ("time_range" :>
                                TimeRangeDict(DEFAULT_START_YEAR, DEFAULT_END_YEAR,
                                              DefaultDescription)) @@ loaded
                       ELSE loaded])

\* query_processor.py: LLMService.extract_query_params(text)
ExtractQueryParams(resp) ==
    LET r == ParseQueryToJson(resp) IN
    IF r.raised THEN [raised |-> FALSE, value |-> EmptyParams] ELSE r

(***************************************************************************)
(* utils.py: identify_query_type(text, parsed_params, llm_service)         *)
(* llm_service = FALSE is a call without the service.                      *)
(***************************************************************************)
\* an identify_query_type that tries the price keywords before the plot
\* keywords
IdentifyQueryTypePriceFirst(text, parsed_params, llm_service, resp) ==
    LET params == IF DOMAIN parsed_params # {} THEN parsed_params
                  ELSE IF llm_service THEN ParseQueryToJson(resp).value
                  ELSE EmptyParams
        has_place == Get(params, "city").t # "none"
                     \/ Get(params, "district").t # "none"
    IN IF AnyKeyword(text, PRICE_KEYWORDS) /\ has_place THEN QT_AVERAGE_PRICE
       ELSE IF AnyKeyword(text, PLOT_KEYWORDS) THEN QT_PLOT
       ELSE IF \E n \in 1..PRICE_PATTERN_COUNT : PricePattern(n, text)
       THEN QT_AVERAGE_PRICE
       ELSE IF has_place /\ Len(text) < SHORT_QUERY_LENGTH THEN QT_AVERAGE_PRICE
       ELSE QT_OTHER

\* an identify_query_type that falls back on the price class
IdentifyQueryTypePriceByDefault(text, parsed_params, llm_service, resp) ==
    LET params == IF DOMAIN parsed_params # {} THEN parsed_params
                  ELSE IF llm_service THEN ParseQueryToJson(resp).value
                  ELSE EmptyParams
        has_place == Get(params, "city").t # "none"
                     \/ Get(params, "district").t # "none"
    IN IF AnyKeyword(text, PLOT_KEYWORDS) THEN QT_PLOT
       ELSE IF AnyKeyword(text, PRICE_KEYWORDS) /\ has_place THEN QT_AVERAGE_PRICE
       ELSE IF \E n \in 1..PRICE_PATTERN_COUNT : PricePattern(n, text)
       THEN QT_AVERAGE_PRICE
       ELSE IF has_place /\ Len(text) < SHORT_QUERY_LENGTH THEN QT_AVERAGE_PRICE
       ELSE QT_AVERAGE_PRICE

IdentifyQueryType(text, parsed_params, llm_service, resp) ==
    With(IF DOMAIN parsed_params # {} THEN parsed_params
         ELSE IF llm_service
              THEN With(ParseQueryToJson(resp), LAMBDA reparsed :
                        IF ~reparsed.raised THEN reparsed.value ELSE EmptyParams)
              ELSE EmptyParams,
         LAMBDA params :
    LET has_city == Get(params, "city").t # "none"
        has_district == Get(params, "district").t # "none"
    IN IF AnyKeyword(text, PLOT_KEYWORDS) THEN QT_PLOT
       ELSE IF AnyKeyword(text, PRICE_KEYWORDS) /\ (has_city \/ has_district)
       THEN QT_AVERAGE_PRICE
       ELSE IF \E n \in 1..PRICE_PATTERN_COUNT : PricePattern(n, text)
       THEN QT_AVERAGE_PRICE
       ELSE IF (has_city \/ has_district) /\ Len(text) < SHORT_QUERY_LENGTH
       THEN QT_AVERAGE_PRICE
       ELSE QT_OTHER)

(***************************************************************************)
(* AI_agent/data_loader.py: DataLoader.load_city_data(city)                *)
(* files is the data directory: the two CSV files as tables, and readable  *)
(* = FALSE when pd.read_csv raises.                                        *)
(***************************************************************************)
\* the string held by a Python value, None for a value that is no string
StrOf(v) == IF v.t = "str" THEN v.s ELSE None

LoadCityDataAI(city, files) ==
    IF ~files.readable THEN [raised |-> TRUE, value |-> Table({}, <<>>, FALSE)]
    ELSE IF Truthy(city) /\ (Contains(city, Names.TaiBei) \/ Contains(city, Names.TaiBeiOld))
    THEN [raised |-> FALSE, value |-> files.tp]
    ELSE IF Truthy(city) /\ Contains(city, Names.XinBei)
    THEN [raised |-> FALSE, value |-> files.ntp]
    ELSE [raised |-> FALSE,
          value |-> Table(files.tp.cols, files.tp.rows \o files.ntp.rows, FALSE)]

(***************************************************************************)
(* AI_agent/data_analysis.py: format_price_result,                         *)
(* execute_pandas_agent_query                                              *)
(***************************************************************************)

NoStats ==
    [avg_price |-> NoMean, count |-> 0, district |-> None, error |-> FALSE,
     dataframe |-> {}]

FormatPriceResult(stats) ==
    IF stats.avg_price.isNone
    THEN Result({"success", "message", "result", "dataframe"}, FALSE,
                "no_price_data", "", {})
    ELSE Result({"success", "message", "result", "dataframe", "stats",
                 "avg_price_ping", "avg_total_price", "avg_size_ping"},
                TRUE, "price", "", {})

\* agent is what the pandas agent does: "answer" a usable text, "silent" no
\* usable text from either attempt, "error" an exception outside the
\* two attempts
ExecutePandasAgentQuery(df, agent) ==
    IF df.rows = <<>> THEN Failure("empty")
    ELSE IF agent = "error" THEN Failure("agent_error")
    ELSE IF agent = "answer" THEN Result({"success", "result"}, TRUE, "agent_answer", "", {})
    ELSE Result({"success", "result"}, TRUE, "basic_stats", "", {})

(***************************************************************************)
(* query_processor.py: RealEstateQueryProcessor                            *)
(* env is everything outside the program during one call: resp (the        *)
(* extraction model), files, agent, chart1 and chart2 (whether drawing the *)
(* first and the second trend chart succeeds).                             *)
(***************************************************************************)
\* handle_price_query(text, parsed_params): ret is the dict returned, stats
\* the statistics computed on the way (computed = FALSE: none were), filters
\* the dict handed to calculate_average_price and from there to
\* filter_data_by_attributes
HandlePriceQuery(text, parsed_params, env) ==
    \* the failure dict of the query processor: success, message, result
    LET FailureMessage(tag) == Result({"success", "message", "result"}, FALSE, tag, "", {})
    IN
    LET NoneComputed(tag) ==
            [ret |-> FailureMessage(tag), computed |-> FALSE, stats |-> NoStats,
             filters |-> EmptyParams]
        Filters(params) ==
            [k \in {k \in {"rooms", "halls", "baths", "elevator", "age"} :
                        Get(params, k).t # "none"}
                   \cup {k \in {"time_range"} : VTruthy(Get(params, k))}
               |-> params[k]]
        Loaded(params, loaded) ==
            IF loaded.raised THEN NoneComputed("exception")
            ELSE IF loaded.value.rows = <<>> THEN NoneComputed("no_data")
            ELSE With(CalculateAveragePrice("AI_agent", loaded.value,
                                            StrOf(Get(params, "district")),
                                            Filters(params)),
                      LAMBDA stats :
                          [ret |-> FormatPriceResult(stats), computed |-> TRUE,
                           stats |-> stats, filters |-> Filters(params)])
        Parsed(parsed) ==
            IF parsed.raised THEN NoneComputed("exception")
            ELSE IF ~VTruthy(Get(parsed.value, "city")) THEN NoneComputed("no_city")
            ELSE With(LoadCityDataAI(StrOf(Get(parsed.value, "city")), env.files),
                      LAMBDA loaded : Loaded(parsed.value, loaded))
    IN With(IF DOMAIN parsed_params = {} THEN ParseQueryToJson(env.resp)
            ELSE [raised |-> FALSE, value |-> parsed_params],
            Parsed)

PlotKeys ==
    {"success", "message", "original_text", "result", "dataframe",
     "query_type", "model_used"}

\* handle_plot_query(query_text, parsed_params)
HandlePlotQuery(query_text, parsed_params, env) ==
    LET isTrend == \E w \in { <<"qu2", "shi3">>, <<"zou", "shi3">>, <<"bian", "hua">> } :
                       Contains(query_text, w)
        AfterFallback(fallback_result) ==
            \* fallback_result.get on None is an AttributeError
            IF fallback_result.isNone THEN EmptyDict
            ELSE Result(PlotKeys, fallback_result.success,
                        IF "result" \in fallback_result.keys
                        THEN fallback_result.tag ELSE "no_chart",
                        "", fallback_result.buckets)
        AfterAgent(df, district) ==
            With(ExecutePandasAgentQuery(df, env.agent),
                 LAMBDA agent_result :
                    IF agent_result.success
                    THEN Result(PlotKeys \ {"dataframe"}, TRUE, agent_result.tag,
                                "", {})
                    ELSE With(GeneratePriceTrendChartAI(df, district, VNone,
                                                        env.chart2),
                              AfterFallback))
        AfterTrend(df, district, trend_result) ==
            \* trend_result["success"] on None is a TypeError
            IF trend_result.isNone THEN EmptyDict
            ELSE IF trend_result.success
            THEN Result(PlotKeys \cup (IF "has_chart" \in trend_result.keys
                                       THEN {"has_chart", "chart_image",
                                             "trend_direction"}
                                       ELSE {}),
                        TRUE, "trend", trend_result.trend, trend_result.buckets)
            ELSE AfterAgent(df, district)
        Loaded(district, loaded) ==
            IF loaded.raised THEN EmptyDict
            ELSE IF isTrend
            THEN With(GeneratePriceTrendChartAI(loaded.value, district, VNone,
                                                env.chart1),
                      LAMBDA trend_result :
                          AfterTrend(loaded.value, district, trend_result))
            ELSE AfterAgent(loaded.value, district)
        Parsed(parsed) ==
            IF parsed.raised THEN EmptyDict
            ELSE With(LoadCityDataAI(
                          IF VTruthy(Get(parsed.value, "city"))
                          THEN StrOf(Get(parsed.value, "city")) ELSE Names.TaipeiCity,
                          env.files),
                      LAMBDA loaded :
                          Loaded(StrOf(Get(parsed.value, "district")), loaded))
    IN With(IF DOMAIN parsed_params = {} THEN ParseQueryToJson(env.resp)
            ELSE [raised |-> FALSE, value |-> parsed_params],
            Parsed)

\* the general path of process_query
GeneralQuery(parsed_params, env) ==
    With(LoadCityDataAI(IF VTruthy(Get(parsed_params, "city"))
                        THEN StrOf(Get(parsed_params, "city")) ELSE Names.TaipeiCity,
                        env.files),
         LAMBDA loaded :
            IF loaded.raised THEN EmptyDict
            ELSE Result({"success", "message", "original_text", "concise_question",
                         "query_params", "result", "query_type", "model_used"},
                        TRUE,
                        ExecutePandasAgentQuery(loaded.value, env.agent).tag,
                        "", {}))

\* the calls of parse_query_to_json that identify_query_type (given a
\* service) or a handler makes for the record it is handed: one for an
\* empty record (`if not parsed_params`), none otherwise
ParseCalls(parsed_params) == IF DOMAIN parsed_params = {} THEN 1 ELSE 0

\* a process_query that hands no record to the handlers
ProcessQueryNotHandingOn(text, env) ==
    LET Other(parsed_params, query_type, calls) ==
            [ret |-> GeneralQuery(parsed_params, env), query_type |-> query_type,
             parsed |-> parsed_params, computed |-> FALSE, stats |-> NoStats,
             parse_calls |-> calls]
        Price(parsed_params, direct, calls) ==
            IF direct.ret.keys # {}
            THEN [ret |-> direct.ret, query_type |-> QT_AVERAGE_PRICE,
                  parsed |-> parsed_params, computed |-> direct.computed,
                  stats |-> direct.stats, parse_calls |-> calls]
            ELSE Other(parsed_params, QT_AVERAGE_PRICE, calls)
        Dispatch(parsed_params, query_type, calls) ==
            IF query_type = QT_AVERAGE_PRICE
            THEN With(HandlePriceQuery(text, EmptyParams, env),
                      LAMBDA direct :
                          Price(parsed_params, direct,
                                calls + ParseCalls(EmptyParams)))
            ELSE IF query_type = QT_PLOT
            THEN [ret |-> HandlePlotQuery(text, EmptyParams, env),
                  query_type |-> query_type, parsed |-> parsed_params,
                  computed |-> FALSE, stats |-> NoStats,
                  parse_calls |-> calls + ParseCalls(EmptyParams)]
            ELSE Other(parsed_params, query_type, calls)
        Parsed(parsed_params) ==
            With(IdentifyQueryType(text, parsed_params, TRUE, env.resp),
                 LAMBDA query_type :
                     Dispatch(parsed_params, query_type,
                              1 + ParseCalls(parsed_params)))
    IN With(ParseQueryToJson(env.resp),
            LAMBDA first : Parsed(IF first.raised THEN EmptyParams ELSE first.value))

\* process_query(text): ret is the dict returned, query_type the class the
\* text was given, parsed the record extracted at the start, parse_calls the
\* number of calls of parse_query_to_json made during the call
ProcessQuery(text, env) ==
    LET Other(parsed_params, query_type, calls) ==
            [ret |-> GeneralQuery(parsed_params, env), query_type |-> query_type,
             parsed |-> parsed_params, computed |-> FALSE, stats |-> NoStats,
             parse_calls |-> calls]
        Price(parsed_params, direct, calls) ==
            IF direct.ret.keys # {}
            THEN [ret |-> direct.ret, query_type |-> QT_AVERAGE_PRICE,
                  parsed |-> parsed_params, computed |-> direct.computed,
                  stats |-> direct.stats, parse_calls |-> calls]
            ELSE Other(parsed_params, QT_AVERAGE_PRICE, calls)
        Dispatch(parsed_params, query_type, calls) ==
            IF query_type = QT_AVERAGE_PRICE
            THEN With(HandlePriceQuery(text, parsed_params, env),
                      LAMBDA direct :
                          Price(parsed_params, direct,
                                calls + ParseCalls(parsed_params)))
            ELSE IF query_type = QT_PLOT
            THEN [ret |-> HandlePlotQuery(text, parsed_params, env),
                  query_type |-> query_type, parsed |-> parsed_params,
                  computed |-> FALSE, stats |-> NoStats,
                  parse_calls |-> calls + ParseCalls(parsed_params)]
            ELSE Other(parsed_params, query_type, calls)
        Parsed(parsed_params) ==
            With(IdentifyQueryType(text, parsed_params, TRUE, env.resp),
                 LAMBDA query_type :
                     Dispatch(parsed_params, query_type,
                              1 + ParseCalls(parsed_params)))
    IN With(ParseQueryToJson(env.resp),
            LAMBDA first : Parsed(IF first.raised THEN EmptyParams ELSE first.value))

(***************************************************************************)
(* The pipeline as a state machine. The functions of utils.py and the two  *)
(* handlers are called on their own (SpecCalls); the entry points of       *)
(* api.py are called turn after turn on one conversation memory            *)
(* (SpecPipeline).                                                         *)
(***************************************************************************)
\* a dict holding every key of the schema
Out(city, district, time_range, rooms) ==
    LET SchemaKeys ==
            {"city", "district", "time_range", "rooms", "halls", "baths", "elevator", "age"}
    IN
    [k \in SchemaKeys |->
        CASE k = "city" -> city
          [] k = "district" -> district
          [] k = "time_range" -> time_range
          [] k = "rooms" -> rooms
          [] OTHER -> VNone]


Raise == [kind |-> "raise", out |-> EmptyParams]
Malformed == [kind |-> "malformed", out |-> EmptyParams]
Ok(out) == [kind |-> "ok", out |-> out]



\* the data directory: both files with rows, both files without rows, or
\* files that cannot be read
TaipeiFile == Table(ColsAI, SampleRows, FALSE)
NewTaipeiFile == Table(ColsAI, <<Row(Names.BanQiaoQu, 2023, 6, 60, 3, Names.You, 15)>>, FALSE)
PipelineResponses ==
    {Raise, Malformed}
    \cup {Ok(Out(c, d, VNone, r)) :
            c \in {VNone, VStr(Names.TaipeiCity), VStr(Names.Kaohsiung)},
            d \in {VNone, VStr(Names.DaAnQu)},
            r \in {VNone, VInt(3)}}

EnvInputs ==
    [resp : PipelineResponses,
     files : {[readable |-> TRUE, tp |-> TaipeiFile, ntp |-> NewTaipeiFile],
              [readable |-> TRUE, tp |-> Table(ColsAI, <<>>, FALSE),
               ntp |-> Table(ColsAI, <<>>, FALSE)],
              [readable |-> FALSE, tp |-> TaipeiFile, ntp |-> NewTaipeiFile]},
     agent : {"answer", "silent", "error"},
     chart1 : BOOLEAN, chart2 : BOOLEAN]

NoPipeOp ==
    [name |-> "none", text |-> <<>>, parsed |-> EmptyParams, llm_service |-> FALSE,
     resp |-> Raise,
     env |-> [resp |-> Raise,
              files |-> [readable |-> FALSE, tp |-> TaipeiFile,
                         ntp |-> NewTaipeiFile],
              agent |-> "error", chart1 |-> FALSE, chart2 |-> FALSE],
     done |-> FALSE, raised |-> FALSE,
     value |-> EmptyParams,
     query_type |-> "", inner |-> PyNone, ret |-> PyNone, computed |-> FALSE,
     stats |-> NoStats, filters |-> EmptyParams, session |-> "", history |-> <<>>,
     parse_calls |-> 0, tools_to_use |-> VNone, classification |-> VNone,
     messages |-> <<>>, params |-> EmptyParams, url |-> <<>>, explanation |-> None]

PipelineIdle ==
    /\ memory = <<>>
    /\ pipeOp = NoPipeOp

(***************************************************************************)
(* agents/tools/url_builder.py (web_agent/url_builder.py and               *)
(* web_agent/utils.py hold the same code as a class): the search URL of    *)
(* the listing site built from a parameter dict and the query text.        *)
(*                                                                         *)
(* A parameter dict is a function from key names to Python values; list    *)
(* values hold Python values. True and False are the ints 1 and 0. A URL   *)
(* segment is a string of characters in which a code of the lookup tables, *)
(* a suffix word and a fixed segment are one character each.               *)
(***************************************************************************)
\* the keys build_url reads
ParamKeys ==
    [price |-> <<"jia", "ge", "fan4", "wei2">>,
     type |-> <<"fang", "wu3", "lei", "xing2">>,
     parking |-> <<"che", "wei">>,
     area |-> <<"ping2", "shu4", "fan4", "wei2">>,
     year |-> <<"wu3", "ling">>,
     room |-> <<"fang", "jian2", "shu4">>,
     no4f |-> <<"pai", "chu2", "4", "lou">>,
     tags |-> <<"she4", "shi8", "biao2", "qian2">>,
     keyword |-> <<"guan", "jian4", "zi4">>,
     floor |-> <<"lou", "ceng">>,
     city |-> <<"cheng3", "shi">>,
     district |-> <<"hang", "zheng4", "qu">>]

CITY_MAPPING ==
    Names.TaiBei :> "Taipei-city"
    @@ Names.TaipeiCity :> "Taipei-city"
    @@ Names.XinBei :> "NewTaipei-city"
    @@ Names.NewTaipeiCity :> "NewTaipei-city"

DISTRICT_ZIP_MAPPING ==
    <<"zhong", "zheng", "qu">> :> "100"
    @@ <<"da", "tong2", "qu">> :> "103"
    @@ <<"zhong", "shan", "qu">> :> "104"
    @@ <<"song", "shan", "qu">> :> "105"
    @@ <<"da", "an", "qu">> :> "106"
    @@ <<"wan", "hua3", "qu">> :> "108"
    @@ <<"xin2", "yi2", "qu">> :> "110"
    @@ <<"shi6", "lin", "qu">> :> "111"
    @@ <<"bei", "tou", "qu">> :> "112"
    @@ <<"nei", "hu", "qu">> :> "114"
    @@ <<"nan", "gang", "qu">> :> "115"
    @@ <<"wen", "shan", "qu">> :> "116"
    @@ <<"wan", "li5", "qu">> :> "207"
    @@ <<"jin2", "shan", "qu">> :> "208"
    @@ <<"ban", "qiao", "qu">> :> "220"
    @@ <<"xi", "zhi3", "qu">> :> "221"
    @@ <<"shen2", "keng", "qu">> :> "222"
    @@ <<"shi9", "ding", "qu">> :> "223"
    @@ <<"rui", "fang3", "qu">> :> "224"
    @@ <<"ping", "xi2", "qu">> :> "226"
    @@ <<"shuang", "xi2", "qu">> :> "227"
    @@ <<"gong4", "liao", "qu">> :> "228"
    @@ <<"xin", "dian", "qu">> :> "231"
    @@ <<"ping2", "lin", "qu">> :> "232"
    @@ <<"wu5", "lai", "qu">> :> "233"
    @@ <<"yong", "he", "qu">> :> "234"
    @@ <<"zhong", "he", "qu">> :> "235"
    @@ <<"tu2", "cheng3", "qu">> :> "236"
    @@ <<"san", "xia2", "qu">> :> "237"
    @@ <<"shu2", "lin", "qu">> :> "238"
    @@ <<"ying", "ge2", "qu">> :> "239"
    @@ <<"san", "chong", "qu">> :> "241"
    @@ <<"xin", "zhuang", "qu">> :> "242"
    @@ <<"tai4", "shan", "qu">> :> "243"
    @@ <<"lin", "kou", "qu">> :> "244"
    @@ <<"lu2", "zhou", "qu">> :> "247"
    @@ <<"wu6", "gu", "qu">> :> "248"
    @@ <<"ba", "li5", "qu">> :> "249"
    @@ <<"dan2", "shui", "qu">> :> "251"
    @@ <<"san", "zhi5", "qu">> :> "252"
    @@ <<"shi9", "men", "qu">> :> "253"

TYPE_MAPPING ==
    <<"gong", "yu">> :> "apartment"
    @@ <<"da", "lou">> :> "dalou"
    @@ <<"tao", "fang">> :> "flat"
    @@ <<"bie", "shu">> :> "townhouse-villa"
    @@ <<"tou2", "tian">> :> "townhouse-villa"
    @@ <<"ban2", "gong">> :> "office"

\* a dict keeps its insertion order: the tag names with their codes, in order
AMENITY_TAG_MAPPING ==
    << [name |-> <<"jin", "xue", "xiao">>, code |-> "16"],
       [name |-> <<"jin", "gong", "yuan2">>, code |-> "19"],
       [name |-> <<"you", "you2", "yong3", "chi">>, code |-> "9"],
       [name |-> <<"you", "jian5", "shen", "fang">>, code |-> "8"],
       [name |-> <<"jin", "jie", "yun", "zhan">>, code |-> "17"],
       [name |-> <<"jin", "shi", "chang3">>, code |-> "18"],
       [name |-> <<"you", "yang", "tai">>, code |-> "4"],
       [name |-> <<"you", "jing", "wei4", "guan3", "li4">>, code |-> "12"] >>

\* sep.join(parts) on strings
RECURSIVE Join(_, _)
Join(parts, sep) ==
    IF parts = <<>> THEN <<>>
    ELSE IF Len(parts) = 1 THEN parts[1]
    ELSE parts[1] \o sep \o Join(Tail(parts), sep)

\* str(value) of a str, a non-negative int or None
PyStr(value) ==
    LET RECURSIVE Digits(_)
        Digits(n) ==
            LET d == <<"0", "1", "2", "3", "4", "5", "6", "7", "8", "9">>[(n % 10) + 1]
            IN  IF n < 10 THEN <<d>> ELSE Digits(n \div 10) \o <<d>>
    IN  CASE value.t = "str" -> value.s
          [] value.t = "int" -> Digits(value.n)
          [] OTHER -> None

\* re.search on the two patterns of the range values:
\*   num   = the match of \d+ (the first run of digits), <<>> without one
\*   range = groups 1 and 2 of (\d+)[-~(U+5230)(U+81F3)](\d+), <<>> without
\*           a match
ReSearch(s) ==
    LET IsDigit(i) == i \in 1..Len(s) /\ s[i] \in DigitChars
        RunEnd(i) == CHOOSE j \in i..Len(s) :
                        /\ \A k \in i..j : IsDigit(k)
                        /\ ~IsDigit(j + 1)
        First(S) == CHOOSE i \in S : \A j \in S : i <= j
        \* the digits that begin a run
        Starts == {i \in 1..Len(s) : IsDigit(i) /\ ~IsDigit(i - 1)}
        Num(i) == SubSeq(s, i, RunEnd(i))
        Ranged(i) ==
            With(RunEnd(i), LAMBDA j :
                /\ j + 2 <= Len(s)
                /\ s[j + 1] \in {"-", "~", "dao", "zhi4"}
                /\ IsDigit(j + 2))
    IN  With(Starts, LAMBDA starts :
        With({i \in starts : Ranged(i)}, LAMBDA ranges :
            [num |-> IF starts = {} THEN <<>> ELSE Num(First(starts)),
             range |-> IF ranges = {} THEN <<>>
                       ELSE With(First(ranges), LAMBDA i :
                                <<Num(i), Num(RunEnd(i) + 2)>>)]))

\* parse_range_param(value, suffix); "" is <<>>
ParseRangeParam(value, suffix) ==
    IF ~VTruthy(value) THEN <<>>
    ELSE
    With(PyStr(value), LAMBDA text :
    With(ReSearch(text), LAMBDA m :
    With(Strip(text), LAMBDA stripped :
        IF Contains(text, <<"yi3", "shang">>) /\ m.num # <<>>
        THEN m.num \o <<"-", "up", "-", suffix>>
        ELSE IF ~Contains(text, <<"yi3", "shang">>)
                /\ Contains(text, <<"yi3", "xia">>) /\ m.num # <<>>
        THEN m.num \o <<"-", "down", "-", suffix>>
        ELSE IF m.range # <<>>
        THEN m.range[1] \o <<"-">> \o m.range[2] \o <<"-", suffix>>
        ELSE IF stripped # <<>> /\ \A i \in 1..Len(stripped) : stripped[i] \in DigitChars
        THEN IF suffix = "room"
             THEN <<"1", "-">> \o stripped \o <<"-", suffix>>
             ELSE stripped \o <<"-", "up", "-", suffix>>
        ELSE <<>>)))

\* _build_price_param(price_range)
BuildPriceParam(price_range) ==
    IF price_range.t # "str" THEN <<>>
    ELSE
    With(ReSearch(price_range.s), LAMBDA m :
        IF Contains(price_range.s, <<"yi3", "shang">>)
        THEN IF m.num # <<>> THEN m.num \o <<"-", "up", "-", "price">> ELSE <<>>
        ELSE IF Contains(price_range.s, <<"yi3", "xia">>)
        THEN IF m.num # <<>> THEN m.num \o <<"-", "down", "-", "price">> ELSE <<>>
        ELSE IF m.range # <<>>
        THEN m.range[1] \o <<"-">> \o m.range[2] \o <<"-", "price">>
        ELSE <<>>)

\* _build_type_param(house_types); the elements are strings
BuildTypeParam(house_types) ==
    IF house_types.t # "list" THEN <<>>
    ELSE
    With(Where(house_types.s, LAMBDA t : t.t = "str" /\ t.s \in DOMAIN TYPE_MAPPING),
         LAMBDA known :
            IF known # <<>>
            THEN Join([i \in 1..Len(known) |-> <<TYPE_MAPPING[known[i].s]>>], <<"-">>)
                 \o <<"-", "type">>
            ELSE <<>>)

\* _extract_tags(params, query): raised is the TypeError of `tag_name in tag`
\* on an element that is no string (None, a number)
ExtractTags(params, query) ==
    LET listed == ParamKeys.tags \in DOMAIN params /\ params[ParamKeys.tags].t = "list"
        items == params[ParamKeys.tags].s
        \* the first element at which the inner loop stops for tag_name: one
        \* that is no string or one that matches; 0 when the loop runs through
        Stop(tag_name) ==
            With({i \in 1..Len(items) :
                    \/ items[i].t # "str"
                    \/ Contains(items[i].s, tag_name)
                    \/ Contains(tag_name, items[i].s)},
                 LAMBDA stops : IF stops = {} THEN 0
                                ELSE CHOOSE i \in stops : \A j \in stops : i <= j)
        Upper(c) == CASE c = "m" -> "M" [] c = "r" -> "R" [] c = "t" -> "T" [] OTHER -> c
        InQuery(tag_name) ==
            \/ /\ tag_name = <<"jin", "jie", "yun", "zhan">>
               /\ \/ Contains(query, <<"jie", "yun">>)
                  \/ Contains([i \in 1..Len(query) |-> Upper(query[i])], <<"M", "R", "T">>)
            \/ /\ tag_name = <<"you", "you2", "yong3", "chi">>
               /\ Contains(query, <<"you2", "yong3", "chi">>)
            \/ /\ tag_name = <<"you", "jian5", "shen", "fang">>
               /\ Contains(query, <<"jian5", "shen">>)
        \* "raise", "found" or "no" for one tag name
        Outcome(tag_name) ==
            IF listed
            THEN With(Stop(tag_name), LAMBDA i :
                    IF i # 0 /\ items[i].t # "str" THEN "raise"
                    ELSE IF i # 0 \/ InQuery(tag_name) THEN "found" ELSE "no")
            ELSE IF \/ tag_name \in DOMAIN params
                    \/ \E key \in DOMAIN params : Contains(key, tag_name)
                    \/ InQuery(tag_name)
                 THEN "found" ELSE "no"
    IN  With([i \in 1..Len(AMENITY_TAG_MAPPING) |-> Outcome(AMENITY_TAG_MAPPING[i].name)],
             LAMBDA outcomes :
                IF \E i \in 1..Len(outcomes) : outcomes[i] = "raise"
                THEN [raised |-> TRUE, tags |-> <<>>]
                ELSE [raised |-> FALSE,
                      tags |-> With(KeepRows(AMENITY_TAG_MAPPING,
                                             {i \in 1..Len(outcomes) : outcomes[i] = "found"},
                                             1),
                                    LAMBDA found : [i \in 1..Len(found) |-> found[i].code])])

\* _build_keyword_param(params, query, tags)
BuildKeywordParam(params, query, tags) ==
    LET mrt == <<"jie", "yun">>
        \* re.search of (U+6377)(U+904B)(\w+(U+7AD9)|\w+(U+7DDA)): the match
        Word(i) == query[i] \notin {" ", "?", "nl", "-", "~"}
        At(p, last) ==
            {q \in (p + 3)..Len(query) :
                /\ SubSeq(query, p, p + 1) = mrt
                /\ query[q] = last
                /\ \A k \in (p + 2)..q : Word(k)}
        Matches(p) == At(p, "zhan") \cup At(p, "xian4")
        Ps == {p \in 1..Len(query) : Matches(p) # {}}
        Max(S) == CHOOSE i \in S : \A j \in S : j <= i
        p0 == CHOOSE p \in Ps : \A r \in Ps : p <= r
        station ==
            SubSeq(query, p0, IF At(p0, "zhan") # {} THEN Max(At(p0, "zhan"))
                              ELSE Max(At(p0, "xian4")))
    IN  IF Contains(query, mrt) /\ \A i \in 1..Len(tags) : tags[i] # "17"
        THEN IF Ps # {} THEN station \o <<"-", "keyword">>
             ELSE mrt \o <<"-", "keyword">>
        ELSE IF ParamKeys.keyword \in DOMAIN params
        THEN PyStr(params[ParamKeys.keyword]) \o <<"-", "keyword">>
        ELSE <<>>

\* the entries build_url can append to url_parts, each "" (<<>>) when it is
\* not appended; raised is the exception of _extract_tags
UrlParts(params, query) ==
    LET Has(key) == key \in DOMAIN params
        Range(key, suffix) ==
            IF Has(key) THEN ParseRangeParam(params[key], suffix) ELSE <<>>
        house_types == IF Has(ParamKeys.type) THEN params[ParamKeys.type]
                       ELSE VList(<<>>)
        parking == Get(params, ParamKeys.parking)
        city == IF Has(ParamKeys.city) THEN params[ParamKeys.city]
                ELSE VStr(Names.NewTaipeiCity)
        district == Get(params, ParamKeys.district)
    IN  With(ExtractTags(params, query), LAMBDA extracted :
        [raised |-> extracted.raised,
         price |-> IF Has(ParamKeys.price) THEN BuildPriceParam(params[ParamKeys.price])
                   ELSE <<>>,
         type |-> IF VTruthy(house_types) THEN BuildTypeParam(house_types) ELSE <<>>,
         parking |->
            IF PyEq(parking, VStr(<<"you", "che", "wei">>))
            THEN <<"plane-auto-mix-mechanical-firstfloor-tower-other-yesparking">>
            ELSE IF PyEq(parking, VStr(<<"wu", "che", "wei">>)) THEN <<"noparking">>
            ELSE <<>>,
         area |-> Range(ParamKeys.area, "area"),
         year |-> Range(ParamKeys.year, "year"),
         room |-> Range(ParamKeys.room, "room"),
         no4f |-> IF VTruthy(Get(params, ParamKeys.no4f)) \/ Has(ParamKeys.no4f)
                  THEN <<"4f-exclude">> ELSE <<>>,
         tags |-> IF extracted.tags # <<>>
                  THEN Join([i \in 1..Len(extracted.tags) |-> <<extracted.tags[i]>>],
                            <<"-">>) \o <<"-", "tags">>
                  ELSE <<>>,
         keyword |-> BuildKeywordParam(params, query, extracted.tags),
         floor |-> Range(ParamKeys.floor, "floor"),
         city |-> IF city.t = "str" /\ city.s \in DOMAIN CITY_MAPPING
                  THEN <<CITY_MAPPING[city.s]>> ELSE <<"NewTaipei-city">>,
         district |->
            IF district.t = "str" /\ district.s \in DOMAIN DISTRICT_ZIP_MAPPING
            THEN <<DISTRICT_ZIP_MAPPING[district.s], "-", "zip">> ELSE <<>>,
         sort |-> <<"default-desc">>,
         page |-> <<"1">>])

SINYI_BASE_URL == <<"https:", "/", "/", "www.sinyi.com.tw", "/", "buy", "/", "list">>

\* build_url with the keyword appended after the floor
BuildUrlKeywordAfterFloor(params, query) ==
    With(UrlParts(params, query), LAMBDA p :
        [raised |-> p.raised,
         url |-> IF p.raised THEN <<>>
                 ELSE SINYI_BASE_URL \o <<"/">>
                      \o Join(Where(<<p.price, p.type, p.parking, p.area, p.year,
                                      p.room, p.no4f, p.tags, p.floor, p.keyword,
                                      p.city, p.district, p.sort, p.page>>,
                                    LAMBDA part : part # <<>>),
                              <<"/">>)])

\* build_url(params, query): the appended entries in the order of the code
BuildUrl(params, query) ==
    With(UrlParts(params, query), LAMBDA p :
        [raised |-> p.raised,
         url |-> IF p.raised THEN <<>>
                 ELSE SINYI_BASE_URL \o <<"/">>
                      \o Join(Where(<<p.price, p.type, p.parking, p.area, p.year,
                                      p.room, p.no4f, p.tags, p.keyword, p.floor,
                                      p.city, p.district, p.sort, p.page>>,
                                    LAMBDA part : part # <<>>),
                              <<"/">>)])

\* generate_search_explanation(params): the parts joined with ", "; raised is
\* the TypeError of str.join on an element that is no string
GenerateSearchExplanation(params) ==
    LET Has(key) == key \in DOMAIN params
        \* a value appended as it is: a string, or the element join refuses
        Plain(key) == IF Has(key) THEN <<params[key]>> ELSE <<>>
        \* a list joined with the enumeration comma, anything else through str()
        Listed(key) ==
            IF ~Has(key) THEN <<>>
            ELSE IF params[key].t = "list"
            THEN IF \E i \in 1..Len(params[key].s) : params[key].s[i].t # "str"
                 THEN <<VNone>>
                 ELSE <<VStr(Join([i \in 1..Len(params[key].s) |-> params[key].s[i].s],
                                  <<"dunhao">>))>>
            ELSE <<VStr(PyStr(params[key]))>>
        Labelled(key, label) ==
            IF Has(key) THEN <<VStr(<<label>> \o PyStr(params[key]))>> ELSE <<>>
        parts ==
            Plain(ParamKeys.city) \o Plain(ParamKeys.district)
            \o Listed(ParamKeys.type) \o Listed(ParamKeys.tags)
            \o (IF Has(ParamKeys.keyword)
                THEN <<VStr(<<"keyword '">> \o PyStr(params[ParamKeys.keyword])
                            \o <<"'">>)>>
                ELSE <<>>)
            \o Labelled(ParamKeys.price, "price ")
            \o Labelled(ParamKeys.area, "area ")
            \o (IF Has(ParamKeys.no4f) /\ VTruthy(params[ParamKeys.no4f])
                THEN <<VStr(<<"excluding 4th floor">>)>> ELSE <<>>)
            \o Plain(ParamKeys.parking)
    IN  With(parts, LAMBDA ps :
            IF \E i \in 1..Len(ps) : ps[i].t # "str"
            THEN [raised |-> TRUE, text |-> <<>>]
            ELSE [raised |-> FALSE,
                  text |-> IF ps # <<>>
                           THEN <<"Search: ">>
                                \o Join([i \in 1..Len(ps) |-> ps[i].s], <<", ">>)
                           ELSE <<"Search all properties">>])

\* ---- SpecCalls: one call of one function; Init is the call about to be
\* made with its arguments, the action is the function running ----
PendingCalls ==
    LET TextInputs == {<<>>} \cup {Texts[k] : k \in DOMAIN Texts}
        \* the time ranges a response can hold: none, "null", the text
        \* {"start_year": 2024, "end_year": 2024}, a text in braces that is no JSON,
        \* a plain text, a dict, a dict whose years are in the wrong order
        TimeRangeInputs ==
            {VNone, VStr(NullString),
             VStr(<<"{", "start_year", ":", "2", "0", "2", "4", ",",
                    "end_year", ":", "2", "0", "2", "4", "}">>),
             VStr(<<"{", "jin", "nian", "}">>),
             VStr(<<"jin", "nian">>), TimeRangeDict(2024, 2024, <<"2024", "nian">>),
             TimeRangeDict(2024, 2020, <<"2024-2020", "nian">>)}
        CityValueInputs == {VNone, VStr(Names.TaipeiCity), VStr(Names.NewTaipeiCity),
                            VStr(Names.Kaohsiung)}
        DistrictValueInputs == {VNone, VStr(Names.DaAnQu), VStr(Names.BanQiaoQu)}
    IN
    \* the records parse_query_to_json can return, and the empty dict
    LET ParsedInputs ==
            {EmptyParams}
            \cup {ParseQueryToJson(Ok(Out(c, d, VNone, VNone))).value :
                    c \in CityValueInputs, d \in DistrictValueInputs}
    IN
    LET ResponseInputs ==
            {Raise, Malformed}
            \cup {Ok(Out(c, d, tr, VNone)) :
                    c \in CityValueInputs, d \in DistrictValueInputs, tr \in TimeRangeInputs}
    IN
    {[NoPipeOp EXCEPT !.name = n, !.text = text, !.resp = resp] :
        n \in {"parse_query_to_json", "extract_query_params"},
        text \in {Texts.PriceWithPlace, Texts.Plain25},
        resp \in ResponseInputs}
    \cup
    {[NoPipeOp EXCEPT !.name = "identify_query_type", !.text = text,
                      !.parsed = parsed, !.llm_service = llm_service,
                      !.resp = resp] :
        text \in TextInputs, parsed \in ParsedInputs, llm_service \in BOOLEAN,
        resp \in {Raise, Ok(Out(VStr(Names.TaipeiCity), VNone, VNone, VNone)),
                  Ok(Out(VNone, VNone, VNone, VNone))}}
    \cup
    {[NoPipeOp EXCEPT !.name = n, !.text = text, !.parsed = parsed, !.env = env,
                      !.resp = env.resp] :
        n \in {"handle_price_query", "handle_plot_query"},
        text \in {Texts.PriceWithPlace, Texts.PriceChange, Texts.PlotOnly},
        parsed \in {EmptyParams}
                   \cup {ParseQueryToJson(r).value : r \in PipelineResponses},
        \* the handler calls the extraction model only for an empty record
        env \in {e \in EnvInputs : e.resp \in {Raise, Ok(Out(VStr(Names.TaipeiCity),
                                                   VStr(Names.DaAnQu), VNone, VNone))}}}
    \cup
    {[NoPipeOp EXCEPT !.name = "handle_price_query", !.text = Texts.PriceWithPlace,
                      !.parsed = ParseQueryToJson(
                                     Ok(Out(VStr(Names.TaipeiCity), VNone, tr, VNone))).value,
                      !.env = env, !.resp = env.resp] :
        tr \in TimeRangeInputs,
        env \in {e \in EnvInputs : e.resp = Raise /\ e.files.readable
                                   /\ e.agent = "error" /\ ~e.chart1 /\ ~e.chart2}}
    \cup
    {[NoPipeOp EXCEPT !.name = n, !.text = text, !.env = env, !.resp = env.resp] :
        n \in {"process_query", "query_sales_data"},
        text \in {Texts.PriceWithPlace, Texts.PriceChange, Texts.PlotOnly,
                  Texts.Plain25},
        env \in {e \in EnvInputs :
                   e.resp \in {Raise,
                               Ok(Out(VStr(Names.TaipeiCity), VStr(Names.DaAnQu), VNone, VNone)),
                               Ok(Out(VStr(Names.Kaohsiung), VNone, VNone, VNone)),
                               Ok(Out(VNone, VNone, VNone, VNone))}}}
    \cup
    \* router(state): llm_service tells whether ChatGroq(...) can be built, resp
    \* is the answer of llm.ainvoke and the JSON object found in it
    {[NoPipeOp EXCEPT !.name = "router", !.text = text,
                      !.llm_service = llm_service, !.resp = resp] :
        text \in TextInputs, llm_service \in BOOLEAN,
        resp \in {Raise, Malformed, Ok(EmptyParams)}
                 \cup {Ok([tools_to_use |-> tools, query_type |-> qt]) :
                         tools \in {VNone, VList(<<>>),
                                    VList(<<"data_analysis">>),
                                    VList(<<"web_search">>),
                                    VList(<<"web_search", "data_analysis">>),
                                    VList(<<"general">>)},
                         qt \in {VStr(<<"general">>), VStr(<<"both">>)}}}

Pending(name) == pipeOp.name = name /\ ~pipeOp.done

CallParseQueryToJson ==
    /\ Pending("parse_query_to_json")
    /\ LET r == ParseQueryToJson(pipeOp.resp) IN
       pipeOp' = [pipeOp EXCEPT !.done = TRUE, !.raised = r.raised,
                                !.value = r.value]
    /\ UNCHANGED memory
    /\ UNCHANGED <<cacheVars, anaVars>>

CallExtractQueryParams ==
    /\ Pending("extract_query_params")
    /\ LET r == ExtractQueryParams(pipeOp.resp) IN
       pipeOp' = [pipeOp EXCEPT !.done = TRUE, !.raised = r.raised,
                                !.value = r.value]
    /\ UNCHANGED memory
    /\ UNCHANGED <<cacheVars, anaVars>>

CallIdentifyQueryType ==
    /\ Pending("identify_query_type")
    /\ pipeOp' = [pipeOp EXCEPT !.done = TRUE,
                    !.query_type = IdentifyQueryType(pipeOp.text, pipeOp.parsed,
                                        pipeOp.llm_service, pipeOp.resp)]
    /\ UNCHANGED memory
    /\ UNCHANGED <<cacheVars, anaVars>>

CallHandlePriceQuery ==
    /\ Pending("handle_price_query")
    /\ LET r == HandlePriceQuery(pipeOp.text, pipeOp.parsed, pipeOp.env) IN
       pipeOp' = [pipeOp EXCEPT !.done = TRUE, !.ret = r.ret,
                                !.computed = r.computed, !.stats = r.stats,
                                !.filters = r.filters]
    /\ UNCHANGED memory
    /\ UNCHANGED <<cacheVars, anaVars>>

CallHandlePlotQuery ==
    /\ Pending("handle_plot_query")
    /\ pipeOp' = [pipeOp EXCEPT !.done = TRUE,
                    !.ret = HandlePlotQuery(pipeOp.text, pipeOp.parsed, pipeOp.env)]
    /\ UNCHANGED memory
    /\ UNCHANGED <<cacheVars, anaVars>>

\* process_real_estate_query(text): process_query on a new processor
CallProcessQuery ==
    /\ Pending("process_query")
    /\ \E q \in {ProcessQuery(pipeOp.text, pipeOp.env)} :
        pipeOp' = [pipeOp EXCEPT !.done = TRUE, !.parsed = q.parsed,
                        !.query_type = q.query_type, !.value = q.parsed,
                        !.computed = q.computed, !.stats = q.stats,
                        !.parse_calls = q.parse_calls,
                        !.inner = q.ret, !.ret = q.ret]
    /\ UNCHANGED memory
    /\ UNCHANGED <<cacheVars, anaVars>>

\* query_sales_data(question): raised is the KeyError of result["success"]
\* or of result["message"]
CallQuerySalesData ==
    /\ Pending("query_sales_data")
    /\ \E q \in {ProcessQuery(pipeOp.text, pipeOp.env)} :
        pipeOp' = [pipeOp EXCEPT !.done = TRUE, !.parsed = q.parsed,
                        !.query_type = q.query_type, !.value = q.parsed,
                        !.computed = q.computed, !.stats = q.stats,
                        !.parse_calls = q.parse_calls,
                        !.inner = q.ret,
                        !.raised = \/ "success" \notin q.ret.keys
                                   \/ ~q.ret.success /\ "message" \notin q.ret.keys,
                        !.ret = IF "success" \notin q.ret.keys THEN PyNone
                                ELSE IF q.ret.success
                                THEN Result({"answer", "raw_response"}, TRUE,
                                            q.ret.tag, "", {})
                                ELSE IF "message" \in q.ret.keys
                                THEN Result({"answer", "error"}, FALSE,
                                            q.ret.tag, "", {})
                                ELSE PyNone]
    /\ UNCHANGED memory
    /\ UNCHANGED <<cacheVars, anaVars>>

\* ---- agents/nodes/router.py: the router of the multi-tool graph ----
BothTools == VList(<<"data_analysis", "web_search">>)

\* _route_with_heuristics(query): the list of tools to use
RouteWithHeuristics(query) ==
    LET DATA_ANALYSIS_KEYWORDS == PRICE_KEYWORDS \o PLOT_KEYWORDS
        WEB_SEARCH_KEYWORDS ==
            << <<"sou", "xun">>, <<"zhao">>, <<"wu2", "jian3">>,
               <<"fang", "wu3">>, <<"gong", "yu">>, <<"da", "lou">>,
               <<"tao", "fang">>, <<"bie", "shu">>, <<"tou2", "tian">>,
               <<"ban2", "gong">>, <<"che", "wei">>, <<"tai", "bei">>,
               <<"xin", "bei">>, <<"jie", "yun">>, <<"xue", "qu">>,
               <<"jin">>, <<"xin2", "yi2", "fang", "wu3">>,
               <<"wang", "zhan">>, <<"you", "mei2", "you">>,
               <<"wang", "lu">>, <<"cha", "xun2">>, <<"zhao", "dao">> >>
        city_district_pattern ==
            << <<"tai", "bei", "shi">>, <<"tai2", "bei", "shi">>,
               <<"xin", "bei", "shi">>, <<"da", "an", "qu">>,
               <<"xin2", "yi2", "qu">>, <<"zhong", "zheng", "qu">>,
               <<"song", "shan", "qu">>, <<"da", "tong2", "qu">>,
               <<"wan", "hua3", "qu">>, <<"wen", "shan", "qu">>,
               <<"nan", "gang", "qu">>, <<"nei", "hu", "qu">>,
               <<"shi6", "lin", "qu">>, <<"bei", "tou", "qu">>,
               <<"ban", "qiao", "qu">>, <<"san", "chong", "qu">>,
               <<"zhong", "he", "qu">>, <<"yong", "he", "qu">>,
               <<"xin", "zhuang", "qu">>, <<"xin", "dian", "qu">>,
               <<"tu2", "cheng3", "qu">>, <<"lu2", "zhou", "qu">>,
               <<"xi", "zhi3", "qu">>, <<"shu2", "lin", "qu">>,
               <<"dan2", "shui", "qu">> >>
        web_specific ==
            << <<"zhao">>, <<"wu2", "jian3">>, <<"fang", "wu3">>,
               <<"gong", "yu">>, <<"cha", "xun2">> >>
        data_specific ==
            << <<"fang", "jia">>, <<"jia", "ge">>, <<"hang", "qing">>,
               <<"jun", "jia">>, <<"tu", "biao">>, <<"qu2", "shi3">> >>
        In(tool, tools) == \E i \in 1..Len(tools) : tools[i] = tool
        byData == IF AnyKeyword(query, DATA_ANALYSIS_KEYWORDS)
                  THEN <<"data_analysis">> ELSE <<>>
        byWeb == byData \o (IF AnyKeyword(query, WEB_SEARCH_KEYWORDS)
                            THEN <<"web_search">> ELSE <<>>)
        place == AnyKeyword(query, city_district_pattern)
        withWeb == IF place /\ AnyKeyword(query, web_specific)
                      /\ ~In("web_search", byWeb)
                   THEN Append(byWeb, "web_search") ELSE byWeb
    IN  IF place /\ AnyKeyword(query, data_specific) /\ ~In("data_analysis", withWeb)
        THEN Append(withWeb, "data_analysis") ELSE withWeb

\* _route_with_llm(query, llm): llm.ainvoke is outside the try, so its
\* exception leaves the function; an answer without a JSON object gives both
\* tools, and so does an object whose tools_to_use is missing or falsy
RouteWithLlm(resp) ==
    CASE resp.kind = "raise" ->
            [raised |-> TRUE, tools_to_use |-> VNone, query_type |-> VNone]
      [] resp.kind = "malformed" ->
            [raised |-> FALSE, tools_to_use |-> BothTools,
             query_type |-> VStr(<<"both">>)]
      [] OTHER ->
            [raised |-> FALSE,
             tools_to_use |-> IF "tools_to_use" \in DOMAIN resp.out
                                 /\ VTruthy(resp.out["tools_to_use"])
                              THEN resp.out["tools_to_use"] ELSE BothTools,
             query_type |-> IF "query_type" \in DOMAIN resp.out
                            THEN resp.out["query_type"]
                            ELSE VStr(<<"general">>)]

\* router(state): whatever raises inside the try gives both tools
Router(query, llm_service, resp) ==
    LET failed == [tools_to_use |-> BothTools, query_type |-> VStr(<<"both">>)]
        tools == RouteWithHeuristics(query)
        llm == RouteWithLlm(resp)
    IN  IF ~llm_service THEN failed
        ELSE IF tools = <<>>
             THEN IF llm.raised THEN failed
                  ELSE [tools_to_use |-> llm.tools_to_use,
                        query_type |-> llm.query_type]
             ELSE [tools_to_use |-> VList(tools),
                   query_type |-> IF Len(tools) > 1 THEN VStr(<<"both">>)
                                  ELSE VStr(<<tools[1]>>)]

CallRouter ==
    /\ Pending("router")
    /\ LET r == Router(pipeOp.text, pipeOp.llm_service, pipeOp.resp) IN
       pipeOp' = [pipeOp EXCEPT !.done = TRUE,
                                !.tools_to_use = r.tools_to_use,
                                !.classification = r.query_type]
    /\ UNCHANGED memory
    /\ UNCHANGED <<cacheVars, anaVars>>

\* build_url(params, query) and then generate_search_explanation(params), as
\* parse_query_to_url calls them; raised is the exception leaving build_url
CallBuildUrl ==
    /\ Pending("build_url")
    /\ \E url \in {BuildUrl(pipeOp.params, pipeOp.text)},
          explanation \in {GenerateSearchExplanation(pipeOp.params)} :
            pipeOp' = [pipeOp EXCEPT !.done = TRUE, !.raised = url.raised,
                                     !.url = url.url,
                                     !.explanation =
                                         IF url.raised \/ explanation.raised THEN None
                                         ELSE explanation.text]
    /\ UNCHANGED memory
    /\ UNCHANGED <<cacheVars, anaVars>>

NextCalls ==
    \/ CallRouter
    \/ CallProcessQuery
    \/ CallQuerySalesData
    \/ CallParseQueryToJson
    \/ CallExtractQueryParams
    \/ CallIdentifyQueryType
    \/ CallHandlePriceQuery
    \/ CallHandlePlotQuery

\* ---- SpecPipeline: the entry points of api.py, turn after turn ----
MaxMessages == 4

ChatTexts == {Texts.PriceWithPlace, Texts.PriceChange}

\* the environments of a turn: the data files readable or not, the agent
\* answering or failing, the charts drawn or not
TurnEnvs ==
    {e \in EnvInputs :
        /\ e.resp \in {Raise, Ok(Out(VStr(Names.TaipeiCity), VStr(Names.DaAnQu), VNone, VNone))}
        /\ e.files.tp.rows # <<>>
        /\ e.agent \in {"answer", "error"}
        /\ e.chart1 = e.chart2}

\* process_query on every question and environment of a turn
TurnResult ==
    [question \in ChatTexts, env \in TurnEnvs |-> ProcessQuery(question, env)]

UserMessage(content) == [role |-> "user", content |-> content]
AIMessage(content) == [role |-> "assistant", content |-> content]

\* the browser sessions of app.py. initialize_session_state gives every
\* session the object CONVERSATION_MEMORY as its st.session_state.memory,
\* and chat_pipeline falls back on the same object: the variable memory is
\* that one object.
Sessions == {"s1", "s2"}

\* the messages a turn appends, marked with the session of the turn (the
\* mark is not part of the program's state)
InSession(session, messages) ==
    [i \in 1..Len(messages) |->
        [role |-> messages[i].role, content |-> messages[i].content,
         session |-> session]]

\* _format_chat_history(chat_history): the role and the content of every
\* message
FormatChatHistory(chat_history) ==
    [i \in 1..Len(chat_history) |->
        [role |-> chat_history[i].role, content |-> chat_history[i].content]]

\* the keys of the dict chat_pipeline returns
ChatKeys(success) ==
    IF success THEN {"messages", "success", "result"}
    ELSE {"messages", "success", "result", "error"}

\* chat_pipeline(question, memory = CONVERSATION_MEMORY,
\* process_real_estate = True): raised is the KeyError of
\* query_result["success"], raised after the user message was added
ChatPipelineRealEstate ==
    \E session \in Sessions, question \in ChatTexts, env \in TurnEnvs :
        /\ Len(memory) + 2 <= MaxMessages
        /\ \E q \in {TurnResult[question, env]} :
            /\ pipeOp' = [NoPipeOp EXCEPT
                    !.name = "chat_pipeline", !.text = question, !.env = env,
                    !.session = session, !.history = memory,
                    !.resp = env.resp, !.done = TRUE, !.parsed = q.parsed,
                    !.query_type = q.query_type, !.value = q.parsed,
                    !.computed = q.computed, !.stats = q.stats,
                        !.parse_calls = q.parse_calls,
                    !.inner = q.ret,
                    !.raised = "success" \notin q.ret.keys,
                    !.ret = IF "success" \notin q.ret.keys THEN PyNone
                            ELSE IF q.ret.success
                            THEN Result(ChatKeys(TRUE)
                                        \cup (q.ret.keys \cap
                                                {"has_chart", "chart_image",
                                                 "trend_direction", "query_params"})
                                        \cup (IF "dataframe" \in q.ret.keys
                                                 /\ q.ret.buckets # {}
                                              THEN {"dataframe"} ELSE {}),
                                        TRUE, q.ret.tag, q.ret.trend, q.ret.buckets)
                            ELSE Result(ChatKeys(FALSE), FALSE, q.ret.tag, "", {}),
                    \* chat_history is the list memory.chat_memory.messages
                    \* itself, not a copy: when it is formatted, the two
                    \* messages of this turn are already in it
                    !.messages =
                        IF "success" \notin q.ret.keys THEN <<>>
                        ELSE FormatChatHistory(
                                 memory \o <<UserMessage(question),
                                             AIMessage(IF q.ret.success
                                                       THEN <<q.ret.tag>>
                                                       ELSE <<"apology">>)>>)
                             \o <<UserMessage(question),
                                  AIMessage(IF q.ret.success THEN <<q.ret.tag>>
                                            ELSE IF "message" \in q.ret.keys
                                            THEN <<"message", q.ret.tag>>
                                            ELSE <<"apology">>)>>]
            /\ memory' =
                 memory \o InSession(session,
                     IF "success" \notin q.ret.keys
                     THEN <<UserMessage(question)>>
                     ELSE <<UserMessage(question),
                            AIMessage(IF q.ret.success THEN <<q.ret.tag>>
                                      ELSE <<"apology">>)>>)
        /\ UNCHANGED <<cacheVars, anaVars>>

\* chat_pipeline(question, process_real_estate = False): the plain chat;
\* reply = FALSE is the model call raising
ChatPipelinePlain ==
    \E session \in Sessions, question \in ChatTexts, reply \in BOOLEAN :
        /\ Len(memory) + 2 <= MaxMessages
        /\ pipeOp' = [NoPipeOp EXCEPT
                !.name = "chat_pipeline_plain", !.text = question, !.done = TRUE,
                !.session = session, !.history = memory,
                !.ret = IF reply THEN Result(ChatKeys(TRUE), TRUE, "reply", "", {})
                        ELSE Result(ChatKeys(FALSE), FALSE, "chat_error", "", {}),
                !.messages =
                    IF reply
                    THEN FormatChatHistory(
                             memory \o <<UserMessage(question),
                                         AIMessage(<<"reply">>)>>)
                         \o <<UserMessage(question), AIMessage(<<"reply">>)>>
                    ELSE <<AIMessage(<<"chat_error">>)>>]
        /\ memory' = IF reply
                     THEN memory \o InSession(session,
                              <<UserMessage(question), AIMessage(<<"reply">>)>>)
                     ELSE memory
        /\ UNCHANGED <<cacheVars, anaVars>>

NextPipeline ==
    \/ ChatPipelineRealEstate
    \/ ChatPipelinePlain

(***************************************************************************)
(* Specifications                                                          *)
(***************************************************************************)
InitCache ==
    /\ CacheIdle
    /\ AnalysisIdle
    /\ PipelineIdle

InitAnalysis ==
    LET ColsTools == BaseCols \cup {"ym"}
        ColsAll == BaseCols \cup {"niandu", "ymd", "ym", "nian", "yue"}
        TableInputs ==
            {Table(c, r, FALSE) :
                c \in {ColsAI, ColsTools, ColsAll},
                r \in {<<>>, SampleRows, SubSeq(SampleRows, 1, 2),
                       \* with sales of seven and of thirteen years ago
                       SampleRows
                       \o << Row(Names.XinYiQu, 2018, 5, 80, 3, Names.Wu, 30),
                             Row(Names.XinYiQu, 2012, 5, 70, 3, Names.Wu, 30) >>,
                       \* one district at the same price in both years, the
                       \* other one cheaper in the second year
                       << Row(Names.DaAnQu, 2023, 4, 100, 3, Names.You, 10),
                          Row(Names.DaAnQu, 2024, 3, 100, 3, Names.You, 10),
                          Row(Names.XinYiQu, 2023, 4, 95, 3, Names.Wu, 30),
                          Row(Names.XinYiQu, 2024, 6, 85, 3, Names.Wu, 30) >>}}
    IN
    /\ CacheIdle
    /\ table \in TableInputs
    /\ loadedTable = table
    /\ anaOp = NoAnaOp
    /\ PipelineIdle

InitCalls ==
    /\ CacheIdle
    /\ AnalysisIdle
    /\ memory = <<>>
    /\ pipeOp \in PendingCalls

SpecCache == InitCache /\ [][NextCache]_vars

SpecRace == InitCache /\ [][NextRace]_vars

SpecAnalysis == InitAnalysis /\ [][NextAnalysis]_vars

SpecCalls == InitCalls /\ [][NextCalls]_vars

\* ---- SpecUrl: one call of build_url on drawn parameters ----
InitUrl ==
    /\ CacheIdle
    /\ AnalysisIdle
    /\ memory = <<>>
    /\ pipeOp \in
        \* build_url(params, query): params is the union of one choice per group
        \* of keys; the values are the str, int, bool and list values a JSON
        \* object can hold
        LET price == {EmptyParams}
                     \cup {ParamKeys.price :> v :
                            v \in {VStr(<<"2", "0", "0", "0", "yi3", "shang">>),
                                   VStr(<<"2", "0", "0", "0", "yi3", "xia">>),
                                   VStr(<<"1", "0", "0", "0", "-", "2", "0", "0", "0">>),
                                   VStr(<<"2", "0", "0", "0", "wan">>),
                                   VStr(<<"2", "0", "0", "0">>),
                                   VInt(2000)}}
            kind == {EmptyParams,
                     ParamKeys.type :> VList(<<VStr(<<"gong", "yu">>), VStr(<<"da", "lou">>)>>)
                     @@ ParamKeys.parking :> VStr(<<"you", "che", "wei">>),
                     ParamKeys.type :> VList(<<VStr(<<"dian4", "ti", "da", "lou">>),
                                               VStr(<<"tou2", "tian">>)>>)
                     @@ ParamKeys.parking :> VStr(<<"wu", "che", "wei">>)}
            sizes == {EmptyParams,
                      ParamKeys.area :> VStr(<<"3", "0", "ping2", "yi3", "shang">>)
                      @@ ParamKeys.year :> VStr(<<"5", "-", "1", "0", "nian">>)
                      @@ ParamKeys.room :> VInt(3)
                      @@ ParamKeys.floor :> VStr(<<"3", "lou", "yi3", "shang">>)}
            no4f == {EmptyParams, ParamKeys.no4f :> VInt(1), ParamKeys.no4f :> VInt(0)}
            amenities == {EmptyParams,
                          <<"jin", "gong", "yuan2">> :> VInt(1)}
                         \cup {ParamKeys.tags :> VList(<<v>>) :
                                 v \in {VStr(<<"jin", "xue", "xiao">>),
                                        VStr(<<"dian4", "ti">>),
                                        VStr(<<"jin">>),
                                        VNone}}
            keyword == {EmptyParams, ParamKeys.keyword :> VStr(<<"xue", "qu">>)}
            place == {EmptyParams,
                      ParamKeys.city :> VStr(Names.TaipeiCity)
                      @@ ParamKeys.district :> VStr(Names.DaAnQu),
                      ParamKeys.city :> VStr(Names.Kaohsiung)
                      @@ ParamKeys.district :> VStr(<<"xin2", "yi2">>)}
        IN
        {[NoPipeOp EXCEPT !.name = "build_url", !.text = text,
                          !.params = a @@ b @@ c @@ d @@ e @@ f @@ g] :
            text \in {Texts.PriceWithPlace, <<"jin", "jie", "yun", "zhan">>},
            a \in price, b \in kind, c \in sizes, d \in no4f, e \in amenities,
            f \in keyword, g \in place}

SpecUrl == InitUrl /\ [][CallBuildUrl]_vars

InitPipeline ==
    /\ CacheIdle
    /\ AnalysisIdle
    /\ PipelineIdle

SpecPipeline == InitPipeline /\ [][NextPipeline]_vars

(***************************************************************************)
(* Claims about the data cache, checked under SpecCache                    *)
(***************************************************************************)
LoadDone == op.name = "load_city_data"

\* C4: load_city_data returns a cached table only if caching is enabled, the
\* entry of the requested key holds a table and a time stamp, and the call's
\* now minus that stamp is under 3600 s; every cache entry a returned table is
\* built from (the two city entries of a merge included) is enabled, present
\* and younger than 3600 s when the call starts.
C4_ServedEntryIsValid ==
    LoadDone =>
        /\ op.source = "cache" =>
              /\ op.used = {CacheKey(op.city)}
              /\ op.ret = pre.cache[CacheKey(op.city)]
        /\ \A k \in op.used :
              /\ pre.enabled
              /\ pre.cache[k].isdf
              /\ pre.loaded[k].set
              /\ op.at - pre.loaded[k].t < CACHE_EXPIRY_SECONDS

\* a cached table served one second before it expires
C4_Witness ==
    /\ LoadDone
    /\ op.source = "cache"
    /\ op.at - pre.loaded[CacheKey(op.city)].t = CACHE_EXPIRY_SECONDS - 1

\* C5: no table returned by load_city_data holds rows that were read from the
\* flat files 3600 s or more before the call.
C5_NoStaleRows ==
    LoadDone => \A row \in op.ret.rows : op.at - row.readAt < CACHE_EXPIRY_SECONDS

\* C6: clear_cache(city) for Taipei or New Taipei empties the table and stamp
\* of that city's entry and of the merged entry and leaves the other city's
\* entry as it was; clear_cache() with no city empties all three entries.
Cleared(k) == dataCache[k] = NoTable /\ lastLoaded[k] = NoTime
Kept(k) == dataCache[k] = pre.cache[k] /\ lastLoaded[k] = pre.loaded[k]

C6_ClearCacheEffect ==
    op.name = "clear_cache" =>
        /\ op.city \in {Names.TaipeiCity, Names.TaipeiCityOld} =>
              Cleared("taipei") /\ Cleared("all") /\ Kept("newtaipei")
        /\ op.city = Names.NewTaipeiCity =>
              Cleared("newtaipei") /\ Cleared("all") /\ Kept("taipei")
        /\ op.city = None => \A k \in Keys : Cleared(k)

\* Taipei cleared while all three entries were filled
C6_Witness ==
    /\ op.name = "clear_cache"
    /\ op.city = Names.TaipeiCity
    /\ \A k \in Keys : pre.cache[k].isdf /\ pre.loaded[k].set
    /\ dataCache["newtaipei"].isdf

\* C25: after any sequence of enable_cache, load_city_data and clear_cache
\* calls run one at a time, whenever caching is disabled the cache holds no
\* table and no timestamp for any key: disabling clears every entry and a
\* load performed while disabled stores nothing.
C25_DisabledCacheIsEmpty ==
    ~cacheEnabled =>
        \A k \in Keys : dataCache[k] = NoTable /\ lastLoaded[k] = NoTime

\* caching was switched off while all three entries were filled
C25_Witness ==
    /\ op.name = "enable_cache"
    /\ ~cacheEnabled
    /\ pre.enabled
    /\ \A k \in Keys : pre.cache[k].isdf /\ pre.loaded[k].set

\* get_cache_status reports the entry of key k as expired or as not valid
ReportsExpired(k) ==
    op.status[k].expired = "True" \/ op.status[k].is_valid = "False"

\* C30: for every cache entry and every time, get_cache_status reports the
\* entry as expired (or not valid) exactly when load_city_data called at
\* that time with caching enabled would refuse to serve it from cache,
\* including at an age of exactly 3600 seconds.
C30_StatusAgreesWithLoad ==
    op.name = "get_cache_status" =>
        \A k \in Keys :
            dataCache[k].isdf =>
                (ReportsExpired(k)
                    <=> ~CacheValid(TRUE, dataCache, lastLoaded, k, now))

\* C24: load_city_data always returns a table: even when clear_cache or
\* enable_cache(False) of another request runs between its cache-validity
\* check and its return, it never returns an absent (None) value and never
\* fails on a missing timestamp.
C24_LoadAlwaysReturnsTable ==
    loader.pc = "done" => ~loader.raised /\ loader.ret.isdf

(***************************************************************************)
(* Claims about the table operations, checked under SpecAnalysis           *)
(***************************************************************************)
\* C7: calculate_average_price called with a district for which the table
\* has zero matching rows returns avg_price = null, count = 0 and the
\* not-found error field, and no statistics for that district.
C7_UnknownDistrictNotFound ==
    (/\ anaOp.name = "calculate_average_price"
     /\ Truthy(anaOp.district)
     /\ anaOp.district \notin DistrictsOf(anaOp.given.rows))
    => /\ anaOp.stats.avg_price.isNone
       /\ anaOp.stats.count = 0
       /\ anaOp.stats.error

\* C9: filter_data_by_attributes returns the same rows when an attribute's
\* value is null, an empty string or a blank string as when the attribute is
\* left out of the mapping.
C9_EmptyValueIsNoConstraint ==
    (anaOp.name = "filter_data_by_attributes" /\ anaOp.value \in EmptyValues)
    => anaOp.retTable.rows = anaOp.omitted.rows

\* C10: no table operation adds columns to, or changes rows of, the table
\* it is given: the held table stays as it was loaded.
C10_TableNeverMutated == table = loadedTable

\* the calendar years of the buckets of the returned table: a month bucket
\* has the key year * 100 + month, a year bucket the key year
BucketYears ==
    {IF b.key > 9999 THEN b.key \div 100 ELSE b.key : b \in anaOp.result.buckets}

\* C17: generate_price_trend_chart buckets the rows by month when they all
\* fall in one calendar year, and by year when they span more than one
\* year.
C17_MonthsWithinOneYearElseYears ==
    (anaOp.name = "generate_price_trend_chart" /\ anaOp.result.buckets # {}) =>
        IF Cardinality(BucketYears) = 1
        THEN \A b \in anaOp.result.buckets : b.key > 9999
        ELSE \A b \in anaOp.result.buckets : b.key <= 9999

\* the rows of the given table that a trend request selects: those of the
\* district, inside the time range (the range of the call, or the default
\* range of agents/tools when the call has none)
TrendSelection ==
    LET rows == anaOp.given.rows
        tr == IF anaOp.value.t = "none" /\ anaOp.impl = "tools"
              THEN VTime(CURRENT_YEAR_TOOLS - DEFAULT_SPAN_TOOLS, CURRENT_YEAR_TOOLS)
              ELSE anaOp.value
    IN {i \in 1..Len(rows) :
          /\ Truthy(anaOp.district) => rows[i].district = anaOp.district
          /\ tr.t = "time" => (rows[i].year >= tr.lo /\ rows[i].year <= tr.hi)}

\* a trend request on a table with its date column whose selected rows all
\* fall in one month: one bucket remains
OneBucketRemains ==
    /\ anaOp.name = "generate_price_trend_chart"
    /\ (IF anaOp.impl = "tools" THEN "ym" ELSE "ymd") \in anaOp.given.cols
    /\ TrendSelection # {}
    /\ \A i, j \in TrendSelection :
          /\ anaOp.given.rows[i].year = anaOp.given.rows[j].year
          /\ anaOp.given.rows[i].month = anaOp.given.rows[j].month

\* C18: with fewer than 2 buckets generate_price_trend_chart returns
\* success = false with the 'not enough data points' result and the bucket
\* table; it reports no trend and fails with no other error.
C18_OneBucketIsNotEnoughData ==
    OneBucketRemains =>
        /\ ~anaOp.result.isNone
        /\ ~anaOp.result.success
        /\ anaOp.result.tag = "not_enough_points"
        /\ "dataframe" \in anaOp.result.keys
        /\ Cardinality(anaOp.result.buckets) = 1
        /\ anaOp.result.trend = ""

\* the change from the first to the last bucket of a trend that was reported
TrendReported ==
    /\ anaOp.name = "generate_price_trend_chart"
    /\ anaOp.impl = "AI_agent"
    /\ ~anaOp.result.isNone
    /\ anaOp.result.success

LastMeanHigher ==
    LastBucket(anaOp.result.buckets).mean.sum
            * FirstBucket(anaOp.result.buckets).mean.count
        > FirstBucket(anaOp.result.buckets).mean.sum
            * LastBucket(anaOp.result.buckets).mean.count

LastMeanLower ==
    LastBucket(anaOp.result.buckets).mean.sum
            * FirstBucket(anaOp.result.buckets).mean.count
        < FirstBucket(anaOp.result.buckets).mean.sum
            * LastBucket(anaOp.result.buckets).mean.count

\* C26: the trend direction reported by generate_price_trend_chart agrees
\* with the sign of the change from the first to the last bucket: it is up
\* exactly when the last bucket mean is higher than the first and down
\* exactly when it is lower.
C26_TrendAgreesWithChange ==
    TrendReported =>
        /\ anaOp.result.trend = "up" <=> LastMeanHigher
        /\ anaOp.result.trend = "down" <=> LastMeanLower

\* C19: a trend request without a time range analyses the rows of the
\* default span, CURRENT_YEAR - 10 to CURRENT_YEAR, and only these: the
\* years of the returned buckets are the years of the selected rows inside
\* that span.
C19_NoRangeMeansLastTenYears ==
    (/\ anaOp.name = "generate_price_trend_chart"
     /\ anaOp.value.t = "none"
     /\ anaOp.result.success) =>
        BucketYears =
            {anaOp.given.rows[i].year :
                i \in {j \in 1..Len(anaOp.given.rows) :
                         /\ Truthy(anaOp.district)
                               => anaOp.given.rows[j].district = anaOp.district
                         /\ anaOp.given.rows[j].year >= CURRENT_YEAR - 10
                         /\ anaOp.given.rows[j].year <= CURRENT_YEAR}}

(***************************************************************************)
(* Claims about the functions of the pipeline, checked under SpecCalls     *)
(***************************************************************************)
Returned(name) == pipeOp.name = name /\ pipeOp.done

\* the record a call works with: the one it was given, or the one it
\* extracts itself when it was given an empty one
RecordUsed ==
    IF DOMAIN pipeOp.parsed # {} THEN pipeOp.parsed
    ELSE IF pipeOp.llm_service \/ pipeOp.name # "identify_query_type"
    THEN ParseQueryToJson(pipeOp.resp).value
    ELSE EmptyParams

PlaceResolved ==
    Get(RecordUsed, "city") # VNone \/ Get(RecordUsed, "district") # VNone

HasPlotKeyword == \E i \in 1..Len(PLOT_KEYWORDS) : Contains(pipeOp.text, PLOT_KEYWORDS[i])
HasPriceKeyword == \E i \in 1..Len(PRICE_KEYWORDS) : Contains(pipeOp.text, PRICE_KEYWORDS[i])
MatchesPricePattern == \E n \in 1..PRICE_PATTERN_COUNT : PricePattern(n, pipeOp.text)

\* C2: identify_query_type returns the result of the first matching rule:
\* (1) a plot keyword gives PLOT; (2) a price keyword with a resolved city
\* or district gives PRICE; (3) a price pattern gives PRICE; (4) a resolved
\* city or district with a text shorter than 25 characters gives PRICE;
\* (5) otherwise OTHER. A text with a plot and a price keyword is PLOT.
C2_FirstMatchingRuleWins ==
    Returned("identify_query_type") =>
        /\ HasPlotKeyword => pipeOp.query_type = QT_PLOT
        /\ (~HasPlotKeyword /\ HasPriceKeyword /\ PlaceResolved)
              => pipeOp.query_type = QT_AVERAGE_PRICE
        /\ (~HasPlotKeyword /\ ~(HasPriceKeyword /\ PlaceResolved)
              /\ MatchesPricePattern)
              => pipeOp.query_type = QT_AVERAGE_PRICE
        /\ (~HasPlotKeyword /\ ~(HasPriceKeyword /\ PlaceResolved)
              /\ ~MatchesPricePattern /\ PlaceResolved /\ Len(pipeOp.text) < 25)
              => pipeOp.query_type = QT_AVERAGE_PRICE
        /\ (~HasPlotKeyword /\ ~(HasPriceKeyword /\ PlaceResolved)
              /\ ~MatchesPricePattern /\ ~(PlaceResolved /\ Len(pipeOp.text) < 25))
              => pipeOp.query_type = QT_OTHER

\* a text with a plot keyword, a price keyword and a resolved city was
\* classified PLOT
C2_Witness ==
    /\ Returned("identify_query_type")
    /\ HasPlotKeyword /\ HasPriceKeyword /\ PlaceResolved
    /\ pipeOp.query_type = QT_PLOT

\* C3: parameter extraction never raises, and when the model call fails or
\* its response cannot be parsed, parse_query_to_json and
\* extract_query_params return a record holding the default time range and
\* nothing else.
C3_ExtractionFailureGivesDefaultOnly ==
    (Returned("parse_query_to_json") \/ Returned("extract_query_params")) =>
        /\ ~pipeOp.raised
        /\ pipeOp.resp.kind \in {"raise", "malformed"} =>
              /\ DOMAIN pipeOp.value = {"time_range"}
              /\ pipeOp.value["time_range"].t = "time"
              /\ pipeOp.value["time_range"].lo = DEFAULT_START_YEAR
              /\ pipeOp.value["time_range"].hi = DEFAULT_END_YEAR

\* extract_query_params returned the default-only record after a response
\* that could not be parsed
C3_Witness ==
    /\ Returned("extract_query_params")
    /\ pipeOp.resp.kind = "malformed"
    /\ DOMAIN pipeOp.value = {"time_range"}

SupportedCity(v) ==
    /\ v.t = "str"
    /\ Contains(v.s, Names.TaiBei) \/ Contains(v.s, Names.TaiBeiOld) \/ Contains(v.s, Names.XinBei)

\* C8: a price query whose resolved city is missing or is not one of the
\* two supported cities is answered with the structured failure {success:
\* false, message, result}, and no price statistics are computed for it.
C8_UnknownCityIsStructuredFailure ==
    (Returned("handle_price_query") /\ ~SupportedCity(Get(RecordUsed, "city"))) =>
        /\ ~pipeOp.ret.success
        /\ {"success", "message", "result"} \subseteq pipeOp.ret.keys
        /\ ~pipeOp.computed

\* C11: every time range handed to filter_data_by_attributes by a price
\* query is a record of start_year, end_year and description with
\* start_year <= end_year; no null range, no text and no inverted range
\* reaches the filter.
C11_OnlyResolvedRangesReachFilter ==
    (Returned("handle_price_query") /\ pipeOp.computed
        /\ "time_range" \in DOMAIN pipeOp.filters) =>
        /\ pipeOp.filters["time_range"].t = "time"
        /\ pipeOp.filters["time_range"].s # <<>>
        /\ pipeOp.filters["time_range"].lo <= pipeOp.filters["time_range"].hi

\* C12: when the response holds no time range, or extraction fails, the
\* time range of the returned record runs from CURRENT_YEAR - 10 to
\* CURRENT_YEAR and has a description.
C12_DefaultRangeIsLastTenYears ==
    ((Returned("parse_query_to_json") \/ Returned("extract_query_params"))
        /\ (pipeOp.resp.kind # "ok"
            \/ IsNullOrNullString(Get(pipeOp.resp.out, "time_range")))) =>
        /\ pipeOp.value["time_range"].t = "time"
        /\ pipeOp.value["time_range"].lo = CURRENT_YEAR - 10
        /\ pipeOp.value["time_range"].hi = CURRENT_YEAR
        /\ pipeOp.value["time_range"].s # <<>>

\* a text of more than 25 characters without price or plot keyword, for
\* which no city and no district is resolved
LongPlainText ==
    /\ Returned("identify_query_type")
    /\ ~PlaceResolved
    /\ Len(pipeOp.text) > 25
    /\ ~HasPriceKeyword /\ ~HasPlotKeyword

\* C15 as stated: a text of more than 25 characters without price or plot
\* keyword, for which no city and no district is resolved, is classified
\* OTHER.
C15_LongPlainTextIsOther == LongPlainText => pipeOp.query_type = QT_OTHER

\* C15: such a text is classified OTHER when it matches none of the five
\* price patterns; a text that names a district followed by "how" or "how
\* much" (the fifth pattern) is classified PRICE.
C15_LongPlainTextWithoutPatternIsOther ==
    LongPlainText =>
        pipeOp.query_type = IF MatchesPricePattern THEN QT_AVERAGE_PRICE
                            ELSE QT_OTHER

\* a long plain text matching no pattern was classified OTHER
C15_Witness ==
    LongPlainText /\ ~MatchesPricePattern /\ pipeOp.query_type = QT_OTHER

\* C16: during one process_query turn parse_query_to_json is called exactly
\* once; classification and the price or plot handler use the record
\* extracted at the start of the turn.
C16_ExtractsOncePerTurn ==
    (Returned("process_query") \/ Returned("query_sales_data")) =>
        pipeOp.parse_calls = 1

\* a turn that went through the price or the plot handler made one
\* extraction
C16_Witness ==
    /\ Returned("process_query")
    /\ pipeOp.query_type \in {QT_AVERAGE_PRICE, QT_PLOT}
    /\ pipeOp.parse_calls = 1

\* process_query took the generic-analysis path and returned its dict: tag
\* tells what execute_pandas_agent_query returned
GenericPathTaken ==
    /\ Returned("process_query")
    /\ "concise_question" \in pipeOp.ret.keys

\* C27: on the generic-analysis path of process_query the returned success
\* flag is true only if the pandas-agent analysis itself succeeded; when
\* execute_pandas_agent_query reports failure (empty table or internal
\* error), process_query reports success = false.
C27_GenericSuccessIsAnalysisSuccess ==
    GenericPathTaken =>
        /\ pipeOp.ret.success => pipeOp.ret.tag \in {"agent_answer", "basic_stats"}
        /\ pipeOp.ret.tag \in {"empty", "agent_error"} => ~pipeOp.ret.success

\* the tools a finished call of router returned, as a set
RoutedTools ==
    IF pipeOp.tools_to_use.t = "list"
    THEN {pipeOp.tools_to_use.s[i] : i \in 1..Len(pipeOp.tools_to_use.s)}
    ELSE {}

\* the heuristics matched nothing and the model's answer gives no usable
\* list: the model could not be built or called, its answer holds no JSON
\* object, or the object lists no tools
NoToolsFromAnywhere ==
    /\ RouteWithHeuristics(pipeOp.text) = <<>>
    /\ \/ ~pipeOp.llm_service
       \/ pipeOp.resp.kind # "ok"
       \/ ~VTruthy(Get(pipeOp.resp.out, "tools_to_use"))

\* C20: the multi-tool router never drops capability: when the heuristics
\* match nothing and the model's answer cannot be parsed, lists no tools, or
\* the router itself fails, tools_to_use is both data_analysis and
\* web_search; in every outcome tools_to_use contains at least one of these
\* two tools.
C20_RouterNeverDropsCapability ==
    Returned("router") =>
        /\ NoToolsFromAnywhere => pipeOp.tools_to_use = BothTools
        /\ RoutedTools \cap {"data_analysis", "web_search"} # {}

(***************************************************************************)
(* Claims about the turns of a conversation, checked under SpecPipeline    *)
(***************************************************************************)
\* C1: for every query text and every outcome of extraction, classification
\* and the handlers, process_query returns a dict holding a success flag
\* and a result string, and chat_pipeline completes the turn without
\* raising.
C1_TurnNeverRaises ==
    Returned("chat_pipeline") =>
        /\ {"success", "result"} \subseteq pipeOp.inner.keys
        /\ ~pipeOp.raised

\* C13: after any sequence of turns, whatever their outcome, the memory is a
\* strict alternation user, assistant, user, assistant, ...: every user
\* message is followed by its assistant reply.
C13_MemoryAlternates ==
    /\ Len(memory) % 2 = 0
    /\ \A i \in 1..Len(memory) :
          memory[i].role = IF i % 2 = 1 THEN "user" ELSE "assistant"

\* C14: the chat history read by a turn of one session holds no message
\* that a turn of another session appended.
C14_HistoryIsOfOwnSession ==
    (Returned("chat_pipeline") \/ Returned("chat_pipeline_plain")) =>
        \A i \in 1..Len(pipeOp.history) :
            pipeOp.history[i].session = pipeOp.session

\* C28: the messages list returned by chat_pipeline for a turn is the
\* history of the earlier turns followed by the current question and the
\* current answer, the current question and answer each appearing exactly
\* once.
C28_MessagesAreHistoryThenTurn ==
    (Returned("chat_pipeline") /\ ~pipeOp.raised) =>
        /\ Len(pipeOp.messages) = Len(pipeOp.history) + 2
        /\ SubSeq(pipeOp.messages, 1, Len(pipeOp.history))
              = FormatChatHistory(pipeOp.history)
        /\ pipeOp.messages[Len(pipeOp.history) + 1] = UserMessage(pipeOp.text)
        /\ pipeOp.messages[Len(pipeOp.history) + 2].role = "assistant"

(***************************************************************************)
(* URL builder (SpecUrl)                                                   *)
(***************************************************************************)
\* url.split("/") on a string
RECURSIVE Split(_)
Split(s) ==
    LET cuts == {i \in 1..Len(s) : s[i] = "/"} IN
    IF cuts = {} THEN <<s>>
    ELSE LET i == CHOOSE c \in cuts : \A d \in cuts : c <= d IN
         <<SubSeq(s, 1, i - 1)>> \o Split(SubSeq(s, i + 1, Len(s)))

\* the path segments of the returned URL after the base URL
PathSegments == Split(SubSeq(pipeOp.url, Len(SINYI_BASE_URL) + 2, Len(pipeOp.url)))

\* the place of a segment in the order of the contract, 0 for a segment of
\* no known kind
SegmentRank(seg) ==
    IF seg = <<>> THEN 0
    ELSE IF seg = <<"1">> THEN 14
    ELSE LET last == seg[Len(seg)] IN
         CASE last = "price" -> 1
           [] last = "type" -> 2
           [] last \in {"plane-auto-mix-mechanical-firstfloor-tower-other-yesparking",
                        "noparking"} -> 3
           [] last = "area" -> 4
           [] last = "year" -> 5
           [] last = "room" -> 6
           [] last = "4f-exclude" -> 7
           [] last = "tags" -> 8
           [] last = "keyword" -> 9
           [] last = "floor" -> 10
           [] last \in {"Taipei-city", "NewTaipei-city"} -> 11
           [] last = "zip" -> 12
           [] last = "default-desc" -> 13
           [] OTHER -> 0

UrlBuilt == Returned("build_url") /\ ~pipeOp.raised

\* the segment of the returned URL of the given rank, "" without one
SegmentOfRank(r) ==
    LET at == {i \in 1..Len(PathSegments) : SegmentRank(PathSegments[i]) = r} IN
    IF at = {} THEN <<>> ELSE PathSegments[CHOOSE i \in at : TRUE]

\* C21: the path segments of the URL build_url returns are each of one of
\* the fourteen kinds, appear in the order price, type, parking, area, age,
\* rooms, floor exclusion, tags, keyword, floor, city, district, sort, page,
\* each kind at most once, and the city, sort and page segments are always
\* there.
C21_SegmentsInFixedOrder ==
    UrlBuilt =>
        With(PathSegments, LAMBDA segs :
            /\ \A i \in 1..Len(segs) : SegmentRank(segs[i]) # 0
            /\ \A i, j \in 1..Len(segs) :
                 i < j => SegmentRank(segs[i]) < SegmentRank(segs[j])
            /\ {11, 13, 14} \subseteq {SegmentRank(segs[i]) : i \in 1..Len(segs)})

\* a URL with a segment of every kind was built
C21_Witness ==
    /\ UrlBuilt
    /\ {SegmentRank(PathSegments[i]) : i \in 1..Len(PathSegments)} = 1..14

\* C22: the price segment of the URL is what parse_range_param returns for
\* the price value with the suffix price: the shared mapping of the range
\* values converts the price as it converts area, age, rooms and floor.
C22_PriceSegmentIsSharedRange ==
    (UrlBuilt /\ ParamKeys.price \in DOMAIN pipeOp.params) =>
        SegmentOfRank(1) = ParseRangeParam(pipeOp.params[ParamKeys.price], "price")

\* params without the values the lookup tables do not hold: the city and
\* the district when they are no key of their table, the elements of the
\* two lists that are no key of theirs
RecognizedOnly(params) ==
    LET Keep(key) ==
            CASE key = ParamKeys.city ->
                    params[key].t = "str" /\ params[key].s \in DOMAIN CITY_MAPPING
              [] key = ParamKeys.district ->
                    params[key].t = "str" /\ params[key].s \in DOMAIN DISTRICT_ZIP_MAPPING
              [] OTHER -> TRUE
        names == {AMENITY_TAG_MAPPING[i].name : i \in 1..Len(AMENITY_TAG_MAPPING)}
        Known(key, v) ==
            v.t = "str" /\ v.s \in (IF key = ParamKeys.type THEN DOMAIN TYPE_MAPPING
                                    ELSE names)
    IN  [key \in {k \in DOMAIN params : Keep(k)} |->
            IF key \in {ParamKeys.type, ParamKeys.tags} /\ params[key].t = "list"
            THEN VList(Where(params[key].s, LAMBDA v : Known(key, v)))
            ELSE params[key]]

\* C23: build_url returns a URL for every parameter mapping, and the values
\* that are in none of the lookup tables leave no trace in it: the URL is the
\* one built from the parameters without them.
C23_UnrecognizedIsOmitted ==
    Returned("build_url") =>
        /\ ~pipeOp.raised
        /\ pipeOp.url = BuildUrl(RecognizedOnly(pipeOp.params), pipeOp.text).url

\* C29: the URL has the 4f-exclude segment exactly when the floor-exclusion
\* parameter is true, and exactly when the search explanation of the same
\* parameters mentions the exclusion.
C29_FloorExclusionAgrees ==
    (UrlBuilt /\ pipeOp.explanation # None) =>
        /\ SegmentOfRank(7) # <<>>
             <=> VTruthy(Get(pipeOp.params, ParamKeys.no4f))
        /\ SegmentOfRank(7) # <<>>
             <=> Contains(pipeOp.explanation, <<"excluding 4th floor">>)

====
